---- MODULE Spec2Model ----
(***************************************************************************)
(* Match-event analytics, match logging, the match embed and the API       *)
(* fetches of valorant_bot.py as a state machine.                          *)
(*                                                                         *)
(* Python dicts are TLA+ records (functions from field names); a field     *)
(* that a dict lacks is simply not in the DOMAIN of the record, and        *)
(* d.get(k, default) is Get(d, k, default).  Python lists are sequences.   *)
(* Percentages that Python rounds to one decimal are kept as integers in   *)
(* tenths of a percent (385 stands for 38.5).                              *)
(***************************************************************************)
EXTENDS Integers, Sequences, FiniteSets, TLC

VARIABLES
    match_data,      \* the match record handed to calculate_kast
    player_puuid,    \* the player the KAST is computed for
    total_rounds,    \* the rounds_played argument
    pc,              \* "call": calculate_kast was invoked, "loop": it is in its
                     \* loop over the rounds, "done": no call is in progress
    kills_by_round,  \* local index round number -> list of kill events: each
                     \* value is the address of a list object
    heap,            \* the list objects the running call created: address ->
                     \* content of the list (the kills list of the match record
                     \* is the object at MatchKillsAddr; its content is that of
                     \* match_data.kills)
    rounds_checked,  \* local counter of round records visited
    kast_rounds,     \* local counter of rounds that met a KAST criterion
    debug_info,      \* local list, one entry per round with player stats
    result,          \* value returned by the last finished call (tenths of a percent)
    returned,        \* the finished calls, in order: the function called and
                     \* the value it returned (a fetch also records the HTTP
                     \* response it was given)
    log_store,       \* the match_logs directory: UTC date -> content of that
                     \* day's file (a list of log entries); a date without a
                     \* file is not in the DOMAIN
    today,           \* the current UTC date, as a day number
    requested,       \* the player a match was requested for and the region:
                     \* the last three arguments of log_match_data
    user_links,      \* the content of user_links.json: Discord user id -> the
                     \* link of that user; a user without a link is not in the
                     \* DOMAIN (as is every user while the file does not exist)
    pulling          \* the /pullgames command that is suspended between two
                     \* of its steps: << >> when none runs, else the one-element
                     \* list of its local variables

vars == << match_data, player_puuid, total_rounds, pc, kills_by_round, heap,
           rounds_checked, kast_rounds, debug_info, result, returned,
           log_store, today, requested, user_links, pulling >>

\* the log store, the clock, the link store and the running /pullgames, which
\* no analytics function touches
logvars == << log_store, today, requested, user_links, pulling >>

-----------------------------------------------------------------------------
(* Python helpers *)

\* Python's None, for the puuid fields (strings)
None == "None"

\* dict.get(k, default)
Get(d, k, default) == IF k \in DOMAIN d THEN d[k] ELSE default

Abs(x) == IF x < 0 THEN 0 - x ELSE x

Max(a, b) == IF a >= b THEN a ELSE b

Range(s) == { s[i] : i \in 1..Len(s) }

-----------------------------------------------------------------------------
(* Python floats.  A non-negative double is a record [m, e] that stands for *)
(* m * 2^e: m is a natural number written as its sequence of bits, highest  *)
(* first and without leading zeros (<< >> is 0), of at most 53 bits.  Every *)
(* operation computes the exact result and rounds it to 53 bits, half to    *)
(* even, as the hardware does.                                              *)

MantissaBits == 53

\* Long arithmetic works on limbs of 10 bits: the number in base 2^10, highest
\* limb first.  Divisors and multipliers stay below 2^20, so that no
\* intermediate value leaves the range of an int.
LimbBase == 2 ^ 10

Zeros(k) == [ i \in 1..k |-> 0 ]

\* the bits without leading zeros
Strip(b) ==
    IF \A i \in 1..Len(b) : b[i] = 0 THEN << >>
    ELSE SubSeq(b, CHOOSE k \in 1..Len(b) : b[k] = 1 /\ \A i \in 1..(k - 1) : b[i] = 0, Len(b))

\* the bits of an int n >= 0
BitsOf(n) == Strip([ i \in 1..31 |-> (n \div (2 ^ (31 - i))) % 2 ])

\* the limbs of the bits b: the j-th limb is the value of the j-th group of
\* 10 bits, the first group being filled up with zeros
LimbsOfBits(b) ==
    LET n == (Len(b) + 9) \div 10
        p == Zeros(n * 10 - Len(b)) \o b
    IN  [ j \in 1..n |->
            LET k == (j - 1) * 10
            IN  512 * p[k + 1] + 256 * p[k + 2] + 128 * p[k + 3] + 64 * p[k + 4]
                + 32 * p[k + 5] + 16 * p[k + 6] + 8 * p[k + 7] + 4 * p[k + 8]
                + 2 * p[k + 9] + p[k + 10] ]

BitsOfLimbs(l) ==
    Strip([ i \in 1..(10 * Len(l)) |->
              (l[((i - 1) \div 10) + 1] \div (2 ^ (9 - ((i - 1) % 10)))) % 2 ])

\* b + 1
BitsInc(b) ==
    IF \A i \in 1..Len(b) : b[i] = 1 THEN << 1 >> \o Zeros(Len(b))
    ELSE LET k == CHOOSE j \in 1..Len(b) : b[j] = 0 /\ \A i \in (j + 1)..Len(b) : b[i] = 1
         IN  [ i \in 1..Len(b) |-> IF i < k THEN b[i] ELSE IF i = k THEN 1 ELSE 0 ]

\* quotient and remainder of the limbs l by the positive int d, from limb i on
RECURSIVE DivLimbs(_, _, _, _, _)
DivLimbs(l, d, i, rem, q) ==
    IF i > Len(l) THEN [ q |-> q, r |-> rem ]
    ELSE DivLimbs(l, d, i + 1, (rem * LimbBase + l[i]) % d,
                  Append(q, (rem * LimbBase + l[i]) \div d))

\* l * c + carry for the int c >= 0, from limb i down
RECURSIVE MulLimbs(_, _, _, _)
MulLimbs(l, c, i, carry) ==
    IF i = 0 THEN LimbsOfBits(BitsOf(carry))
    ELSE Append(MulLimbs(l, c, i - 1, (l[i] * c + carry) \div LimbBase),
                (l[i] * c + carry) % LimbBase)

\* a + b + carry for two sequences of limbs of the same length, from limb i down
RECURSIVE AddLimbs(_, _, _, _)
AddLimbs(a, b, i, carry) ==
    IF i = 0 THEN << carry >>
    ELSE Append(AddLimbs(a, b, i - 1, (a[i] + b[i] + carry) \div LimbBase),
                (a[i] + b[i] + carry) % LimbBase)

\* the bits of b * c
MulBits(b, c) == BitsOfLimbs(MulLimbs(LimbsOfBits(b), c, Len(LimbsOfBits(b)), 0))

\* the bits of a + b
AddBits(a, b) ==
    LET n == IF Len(a) > Len(b) THEN Len(a) ELSE Len(b)
        x == LimbsOfBits(Zeros(n - Len(a)) \o a)
        y == LimbsOfBits(Zeros(n - Len(b)) \o b)
    IN  BitsOfLimbs(AddLimbs(x, y, Len(x), 0))

\* -1, 0 or 1 as a is less than, equal to or greater than b
BigCmp(a, b) ==
    LET x == Strip(a)
        y == Strip(b)
    IN  IF Len(x) # Len(y) THEN (IF Len(x) > Len(y) THEN 1 ELSE -1)
        ELSE IF x = y THEN 0
        ELSE LET k == CHOOSE j \in 1..Len(x) : x[j] # y[j] /\ \A i \in 1..(j - 1) : x[i] = y[i]
             IN  IF x[k] > y[k] THEN 1 ELSE -1

\* the double nearest to b * 2^e, or to a value just above it when sticky:
\* round to nearest, ties to the even mantissa
RoundBits(b, sticky, e) ==
    IF Len(b) <= MantissaBits THEN [ m |-> b, e |-> e ]
    ELSE LET head == SubSeq(b, 1, MantissaBits)
             rest == sticky \/ \E i \in (MantissaBits + 2)..Len(b) : b[i] = 1
             up   == b[MantissaBits + 1] = 1 /\ (rest \/ head[MantissaBits] = 1)
             e2   == e + Len(b) - MantissaBits
         IN  IF ~ up THEN [ m |-> head, e |-> e2 ]
             ELSE IF Len(BitsInc(head)) > MantissaBits
                  THEN [ m |-> SubSeq(BitsInc(head), 1, MantissaBits), e |-> e2 + 1 ]
                  ELSE [ m |-> BitsInc(head), e |-> e2 ]

\* x / d for a double x and a positive int d
FDivInt(x, d) ==
    LET shift == MantissaBits + 2 + Len(BitsOf(d))
        res   == DivLimbs(LimbsOfBits(x.m \o Zeros(shift)), d, 1, 0, << >>)
    IN  RoundBits(BitsOfLimbs(res.q), res.r # 0, x.e - shift)

\* n / d for ints n >= 0 and d > 0 (true division)
FDiv(n, d) == FDivInt([ m |-> BitsOf(n), e |-> 0 ], d)

\* x * c for a double x and an int c >= 0
FMulInt(x, c) == RoundBits(MulBits(x.m, c), FALSE, x.e)

\* x + y
FAdd(x, y) ==
    IF x.m = << >> THEN y
    ELSE IF y.m = << >> THEN x
    ELSE LET e == IF x.e < y.e THEN x.e ELSE y.e
         IN  RoundBits(AddBits(x.m \o Zeros(x.e - e), y.m \o Zeros(y.e - e)), FALSE, e)

\* -1, 0 or 1 as x is less than, equal to or greater than y
FCmp(x, y) ==
    LET e == IF x.e < y.e THEN x.e ELSE y.e
    IN  BigCmp(x.m \o Zeros(x.e - e), y.m \o Zeros(y.e - e))

\* -1, 0 or 1 as the double x is less than, equal to or greater than a / b
FCmpRatio(x, a, b) ==
    IF x.e >= 0 THEN BigCmp(MulBits(x.m, b) \o Zeros(x.e), BitsOf(a))
    ELSE BigCmp(MulBits(x.m, b), BitsOf(a) \o Zeros(0 - x.e))

\* round(x, digits) in units of 1 / scale (scale = 10^digits), for a double x
\* that lies next to the decimal tie (2q + 1) / (2 * scale): the decimal
\* nearest to the value the double holds, the even one when it holds the tie
PyRoundAtTie(x, q, scale) ==
    LET c == FCmpRatio(x, 2 * q + 1, 2 * scale)
    IN  IF c > 0 \/ (c = 0 /\ q % 2 = 1) THEN q + 1 ELSE q

\* round((num / den) * 100, 1) in tenths of a percent.  Off a decimal tie the
\* error of the float cannot reach the tie and the nearest tenth of the exact
\* value is returned; at a tie the float product decides.
RoundPct(num, den) ==
    LET q == (1000 * num) \div den
        r == (1000 * num) % den
    IN  IF 2 * r = den THEN PyRoundAtTie(FMulInt(FDiv(num, den), 100), q, 10)
        ELSE IF 2 * r > den THEN q + 1 ELSE q

KillTime(e) == Get(e, "kill_time_in_round", 0)

\* insert e into the time-sorted list s behind every event that is not later
InsertByTime(s, e) ==
    LET n == Cardinality({ i \in 1..Len(s) : KillTime(s[i]) <= KillTime(e) })
    IN  SubSeq(s, 1, n) \o << e >> \o SubSeq(s, n + 1, Len(s))

\* list.sort(key=lambda x: x.get('kill_time_in_round', 0)): stable, ascending
RECURSIVE SortByTime(_)
SortByTime(s) ==
    IF s = << >> THEN << >>
    ELSE InsertByTime(SortByTime(SubSeq(s, 1, Len(s) - 1)), s[Len(s)])

-----------------------------------------------------------------------------
(* calculate_kast *)

\* the grouping loop: one list per round number that occurs, in input order
GroupKillsByRound(match_kills) ==
    [ r \in { Get(match_kills[i], "round", 0) : i \in 1..Len(match_kills) } |->
        SelectSeq(match_kills, LAMBDA e : Get(e, "round", 0) = r) ]

\* kills_by_round.get(k, [])
IndexGet(index, k) == IF k \in DOMAIN index THEN index[k] ELSE << >>

\* the keys of the index whose list the lookup yields: the first of round_num,
\* round_num + 1, round_num - 1 with a truthy (non-empty) list; none if all are falsy
\* variant: the previous round number is tried before the next one
RoundKillsKeyPrevFirst(index, round_num) ==
    IF IndexGet(index, round_num) # << >> THEN { round_num }
    ELSE IF IndexGet(index, round_num - 1) # << >> THEN { round_num - 1 }
    ELSE IF IndexGet(index, round_num + 1) # << >> THEN { round_num + 1 }
    ELSE { }

RoundKillsKey(index, round_num) ==
    IF IndexGet(index, round_num) # << >> THEN { round_num }
    ELSE IF IndexGet(index, round_num + 1) # << >> THEN { round_num + 1 }
    ELSE IF IndexGet(index, round_num - 1) # << >> THEN { round_num - 1 }
    ELSE { }

\* kills_by_round.get(n, []) or kills_by_round.get(n + 1, []) or kills_by_round.get(n - 1, [])
RoundKillsList(index, round_num) ==
    LET ks == RoundKillsKey(index, round_num)
    IN  IF ks = { } THEN << >> ELSE index[CHOOSE k \in ks : TRUE]

\* round_info.get('round_num') or round_info.get('round') or
\* round_info.get('round_number', rounds_checked); an absent field reads None, falsy like 0
KastRoundNum(round_info, checked) ==
    IF Get(round_info, "round_num", 0) # 0 THEN round_info.round_num
    ELSE IF Get(round_info, "round", 0) # 0 THEN round_info.round
    ELSE Get(round_info, "round_number", checked)

\* the first entry of player_stats whose player_puuid is the player's, as a
\* list of at most one element
FindPlayerStats(round_info, puuid) ==
    LET stats == Get(round_info, "player_stats", << >>)
        hits  == { i \in 1..Len(stats) : Get(stats[i], "player_puuid", None) = puuid }
    IN  IF hits = { } THEN << >>
        ELSE << stats[CHOOSE i \in hits : \A j \in hits : i <= j] >>

HasKill(stat) == Get(stat, "kills", 0) > 0

\* variant: the assistants of the kill events are not consulted
HasAssistStatOnly(stat, round_kills_list, puuid) == Get(stat, "assists", 0) > 0

HasAssist(stat, round_kills_list, puuid) ==
    \/ Get(stat, "assists", 0) > 0
    \/ \E i \in 1..Len(round_kills_list) :
          LET assistants == Get(round_kills_list[i], "assistants", << >>)
          IN  \E a \in 1..Len(assistants) :
                 Get(assistants[a], "assistant_puuid", None) = puuid

\* the survival fields of the round stat
SurvivedByStat(stat) ==
    \/ Get(stat, "alive", FALSE)
    \/ Get(stat, "was_alive", FALSE)
    \/ Get(stat, "survived", FALSE)
    \/ ~ Get(stat, "died_in_round", TRUE)

PlayerDied(round_kills_list, puuid) ==
    \E i \in 1..Len(round_kills_list) :
        Get(round_kills_list[i], "victim_puuid", None) = puuid

\* variant: the kill events are not consulted
SurvivedFieldsOnly(stat, round_kills_list, puuid) == SurvivedByStat(stat)

Survived(stat, round_kills_list, puuid) ==
    SurvivedByStat(stat) \/ ~ PlayerDied(round_kills_list, puuid)

\* 5 seconds window
TradeWindow == 5000

\* variant: the window test excludes the boundary
IsTradeOfStrict(sorted, i, j, puuid) ==
    /\ j # i
    /\ Get(sorted[j], "victim_puuid", None) = Get(sorted[i], "killer_puuid", None)
    /\ Abs(KillTime(sorted[j]) - KillTime(sorted[i])) < TradeWindow
    /\ Get(sorted[j], "killer_puuid", None) # puuid

\* whether event j of the sorted list trades the death at position i
IsTradeOf(sorted, i, j, puuid) ==
    /\ j # i
    /\ Get(sorted[j], "victim_puuid", None) = Get(sorted[i], "killer_puuid", None)
    /\ Abs(KillTime(sorted[j]) - KillTime(sorted[i])) <= TradeWindow
    /\ Get(sorted[j], "killer_puuid", None) # puuid

\* positions of the player's deaths in the sorted list
DeathPositions(sorted, puuid) ==
    { i \in 1..Len(sorted) : Get(sorted[i], "victim_puuid", None) = puuid }

\* the scan over the sorted list: only the first death of the player is
\* examined (the outer loop breaks after it)
WasTraded(sorted, puuid) ==
    LET deaths == DeathPositions(sorted, puuid)
    IN  /\ deaths # { }
        /\ LET i == CHOOSE d \in deaths : \A e \in deaths : d <= e
           IN  \E j \in 1..Len(sorted) : IsTradeOf(sorted, i, j, puuid)

\* variant: the kill criterion is left out
RoundKastNoKill(has_kill, has_assist, survived, was_traded) ==
    has_assist \/ survived \/ was_traded

RoundKast(has_kill, has_assist, survived, was_traded) ==
    has_kill \/ has_assist \/ survived \/ was_traded

\* the debug_info entry of one round with player stats; round_kills_list is
\* the list the lookups of this round yield (kept for reference)
RoundEntry(stat, round_num, index, puuid) ==
    LET lst    == RoundKillsList(index, round_num)
        sorted == SortByTime(lst)
        k      == HasKill(stat)
        a      == HasAssist(stat, lst, puuid)
        s      == Survived(stat, lst, puuid)
        t      == WasTraded(sorted, puuid)
    IN  [ round |-> round_num, kill |-> k, assist |-> a, survive |-> s,
          trade |-> t, kast |-> RoundKast(k, a, s, t), round_kills_list |-> lst ]

\* the index after the in-place sort of the list the lookup yielded
IndexAfterSort(index, round_num) ==
    [ k \in DOMAIN index |->
        IF k \in RoundKillsKey(index, round_num) THEN SortByTime(index[k]) ELSE index[k] ]

\* Lists are objects: a variable or a dict entry holds the address of a
\* list, and list.sort() and list.append() change the object at that address,
\* for every holder of the address.

\* the address of the list that match_data['kills'] holds
MatchKillsAddr == 0

\* no list object
NoLists == [ a \in { } |-> << >> ]

\* the list objects a call on the match record can reach: the lists it
\* created, and the kills list of the record (match_data.get('kills', []))
Objects(match, lists) ==
    [ a \in DOMAIN lists \cup { MatchKillsAddr } |->
        IF a = MatchKillsAddr THEN Get(match, "kills", << >>) ELSE lists[a] ]

\* the lists among the objects that the call created
CreatedLists(objects) == [ a \in DOMAIN objects \ { MatchKillsAddr } |-> objects[a] ]

\* the match record when its kills list has the content the objects give it
MatchOfObjects(match, objects) ==
    IF "kills" \in DOMAIN match
    THEN [ match EXCEPT !.kills = objects[MatchKillsAddr] ]
    ELSE match

\* '[]': a new list object, at the first address that holds no object
NewList(objects) ==
    CHOOSE a \in 1..(Cardinality(DOMAIN objects) + 1) :
        /\ a \notin DOMAIN objects
        /\ \A b \in 1..(a - 1) : b \in DOMAIN objects

\* the grouping loop on objects: 'kills_by_round[round_num] = []' stores the
\* address of a new list under a round number that is not yet a key, and
\* 'kills_by_round[round_num].append(kill_event)' changes the list at the
\* address stored under the round number
RECURSIVE GroupRefs(_, _, _, _)
GroupRefs(index, objects, match_kills, i) ==
    IF i > Len(match_kills) THEN [ index |-> index, objects |-> objects ]
    ELSE LET kill_event == match_kills[i]
             round_num  == Get(kill_event, "round", 0)
             is_key     == round_num \in DOMAIN index
             a          == IF is_key THEN index[round_num] ELSE NewList(objects)
             keyed      == IF is_key THEN index
                           ELSE [ k \in DOMAIN index \cup { round_num } |->
                                    IF k = round_num THEN a ELSE index[k] ]
             created    == IF is_key THEN objects
                           ELSE [ b \in DOMAIN objects \cup { a } |->
                                    IF b = a THEN << >> ELSE objects[b] ]
         IN  GroupRefs(keyed, [ created EXCEPT ![a] = Append(@, kill_event) ],
                       match_kills, i + 1)

\* the index read through its addresses: round number -> content of the list
Lists(index, objects) == [ k \in DOMAIN index |-> objects[index[k]] ]

\* the objects after list.sort(key=kill_time_in_round) on the lists at refs
SortInPlace(objects, refs) ==
    [ a \in DOMAIN objects |-> IF a \in refs THEN SortByTime(objects[a]) ELSE objects[a] ]

\* the address round_kills_list holds when it is sorted: that of the list the
\* lookup yielded, none when the lookup yielded an empty list
\* variant: the list sorted is the kills list of the match record
RoundKillsRefOfRecord(index, objects, round_num) ==
    IF RoundKillsKey(Lists(index, objects), round_num) = { } THEN { }
    ELSE { MatchKillsAddr }

RoundKillsRef(index, objects, round_num) ==
    { index[k] : k \in RoundKillsKey(Lists(index, objects), round_num) }

\* the early returns: not match_data (an empty dict), not player_puuid,
\* total_rounds == 0, not round_data
\* variant: total_rounds == 0 is not checked
KastEarlyReturnNoTotal(m, puuid, total) ==
    \/ DOMAIN m = { }
    \/ puuid = ""
    \/ Get(m, "rounds", << >>) = << >>

KastEarlyReturn(m, puuid, total) ==
    \/ DOMAIN m = { }
    \/ puuid = ""
    \/ total = 0
    \/ Get(m, "rounds", << >>) = << >>

\* actual_rounds = max(rounds_checked, total_rounds); round(kast / actual * 100, 1)
\* variants: the denominator is total_rounds alone, or rounds_checked alone
KastPercentageByTotal(kast, checked, total) == RoundPct(kast, Max(total, 1))

KastPercentageByChecked(kast, checked, total) == RoundPct(kast, Max(checked, 1))

KastPercentage(kast, checked, total) == RoundPct(kast, Max(checked, total))

\* the local state of a call that has not started
NoIndex == [ k \in { } |-> << >> ]

\* the match_logs directory before anything was logged
NoLogs == [ d \in { } |-> << >> ]

\* no /pullgames command is running
NotPulling == << >>

\* user_links.json before any /link
NoLinks == [ u \in { } |-> << >> ]

\* the UTC date at which the program starts
FirstDay == 1

\* the request of the user: name and tag of a player, and a region
Request == [ username |-> "Ann", tag |-> "0001", region |-> "eu" ]

KastCall ==
    /\ pc = "call"
    /\ IF KastEarlyReturn(match_data, player_puuid, total_rounds)
       THEN /\ pc' = "done"
            /\ result' = 0
            /\ returned' = Append(returned, [ fn |-> "calculate_kast", value |-> 0 ])
            /\ UNCHANGED << kills_by_round, heap >>
       ELSE /\ pc' = "loop"
            /\ LET grouped == GroupRefs(NoIndex, Objects(match_data, NoLists),
                                        Get(match_data, "kills", << >>), 1)
               IN  /\ kills_by_round' = grouped.index
                   /\ heap' = CreatedLists(grouped.objects)
            /\ UNCHANGED << result, returned >>
    /\ rounds_checked' = 0
    /\ kast_rounds' = 0
    /\ debug_info' = << >>
    /\ UNCHANGED << match_data, player_puuid, total_rounds, logvars >>

\* one iteration of the loop over round_data
KastRound ==
    /\ pc = "loop"
    /\ rounds_checked < Len(match_data.rounds)
    /\ LET round_info == match_data.rounds[rounds_checked + 1]
           round_num  == KastRoundNum(round_info, rounds_checked)
           found      == FindPlayerStats(round_info, player_puuid)
       IN  /\ rounds_checked' = rounds_checked + 1
           /\ IF found = << >>
              THEN UNCHANGED << kast_rounds, debug_info, heap, match_data >>
              ELSE LET objects == Objects(match_data, heap)
                       entry   == RoundEntry(found[1], round_num,
                                             Lists(kills_by_round, objects), player_puuid)
                       sorted  == SortInPlace(objects,
                                              RoundKillsRef(kills_by_round, objects, round_num))
                   IN  /\ kast_rounds' = IF entry.kast THEN kast_rounds + 1 ELSE kast_rounds
                       /\ debug_info' = Append(debug_info, entry)
                       /\ heap' = CreatedLists(sorted)
                       /\ match_data' = MatchOfObjects(match_data, sorted)
    /\ UNCHANGED << player_puuid, total_rounds, pc, kills_by_round, result, returned,
                    logvars >>

KastReturn ==
    /\ pc = "loop"
    /\ rounds_checked = Len(match_data.rounds)
    /\ pc' = "done"
    /\ result' = KastPercentage(kast_rounds, rounds_checked, total_rounds)
    /\ returned' = Append(returned, [ fn |-> "calculate_kast", value |-> result' ])
    /\ UNCHANGED << match_data, player_puuid, total_rounds, kills_by_round, heap,
                    rounds_checked, kast_rounds, debug_info, logvars >>

\* calls made on one match record
MaxCalls == 2

\* the caller invokes calculate_kast on the record
KastInvoke ==
    /\ pc = "done"
    /\ Len(returned) < MaxCalls
    /\ pc' = "call"
    /\ UNCHANGED << match_data, player_puuid, total_rounds, kills_by_round, heap,
                    rounds_checked, kast_rounds, debug_info, result, returned,
                    logvars >>

\* calculate_kast as a function of its arguments
RECURSIVE KastCount(_, _, _, _)
KastCount(m, puuid, index, i) ==
    IF i > Len(m.rounds) THEN 0
    ELSE LET found == FindPlayerStats(m.rounds[i], puuid)
             n     == KastRoundNum(m.rounds[i], i - 1)
         IN  (IF found # << >> /\ RoundEntry(found[1], n, index, puuid).kast THEN 1 ELSE 0)
             + KastCount(m, puuid, IF found = << >> THEN index ELSE IndexAfterSort(index, n), i + 1)

calculate_kast(m, puuid, total) ==
    IF KastEarlyReturn(m, puuid, total) THEN 0
    ELSE KastPercentage(KastCount(m, puuid, GroupKillsByRound(Get(m, "kills", << >>)), 1),
                        Len(m.rounds), total)

-----------------------------------------------------------------------------
(* analyze_first_blood_win_rate *)

\* str.lower() on the team and player names that occur
Lower(t) ==
    CASE t = "Red" -> "red" [] t = "Blue" -> "blue"
      [] t = "Ann" -> "ann" [] t = "Bob" -> "bob" [] OTHER -> t

\* round_info.get('round_num', round_info.get('round', 0))
FbRoundNum(round_info) == Get(round_info, "round_num", Get(round_info, "round", 0))

\* the list the first-blood analysis reads for a round: the one indexed under
\* the round's number, and none (the round is skipped) if that key is missing
FbRoundKills(index, round_num) ==
    IF round_num \in DOMAIN index THEN index[round_num] ELSE << >>

FbZero ==
    [ total_rounds |-> 0, first_blood_rounds |-> 0,
      first_blood_wins |-> 0, first_blood_losses |-> 0 ]

\* the counters after one round record, were a round without a winner counted
FbRoundAnyWinner(stats, index, round_info) ==
    LET round_num    == FbRoundNum(round_info)
        winning_team == Lower(Get(round_info, "winning_team", ""))
    IN  IF round_num \notin DOMAIN index THEN stats
        ELSE LET round_kills == SortByTime(FbRoundKills(index, round_num))
                 killer_team == Lower(Get(round_kills[1], "killer_team", ""))
             IN  [ total_rounds       |-> stats.total_rounds + 1,
                   first_blood_rounds |-> stats.first_blood_rounds
                                            + (IF killer_team # "" THEN 1 ELSE 0),
                   first_blood_wins   |-> stats.first_blood_wins
                                            + (IF killer_team # "" /\ killer_team = winning_team
                                               THEN 1 ELSE 0),
                   first_blood_losses |-> stats.first_blood_losses
                                            + (IF killer_team # "" /\ killer_team # winning_team
                                               THEN 1 ELSE 0) ]

\* the counters after one round record, were a first kill without killer team
\* counted as a loss
FbRoundUnknownKillerLoses(stats, index, round_info) ==
    LET round_num    == FbRoundNum(round_info)
        winning_team == Lower(Get(round_info, "winning_team", ""))
    IN  IF winning_team = "" \/ round_num \notin DOMAIN index THEN stats
        ELSE LET round_kills == SortByTime(FbRoundKills(index, round_num))
                 killer_team == Lower(Get(round_kills[1], "killer_team", ""))
             IN  [ total_rounds       |-> stats.total_rounds + 1,
                   first_blood_rounds |-> stats.first_blood_rounds
                                            + (IF killer_team # "" THEN 1 ELSE 0),
                   first_blood_wins   |-> stats.first_blood_wins
                                            + (IF killer_team # "" /\ killer_team = winning_team
                                               THEN 1 ELSE 0),
                   first_blood_losses |-> stats.first_blood_losses
                                            + (IF killer_team # winning_team THEN 1 ELSE 0) ]

\* the counters after one round record
FbRound(stats, index, round_info) ==
    LET round_num    == FbRoundNum(round_info)
        winning_team == Lower(Get(round_info, "winning_team", ""))
    IN  IF winning_team = "" \/ round_num \notin DOMAIN index THEN stats
        ELSE LET round_kills == SortByTime(FbRoundKills(index, round_num))
                 killer_team == Lower(Get(round_kills[1], "killer_team", ""))
             IN  [ total_rounds       |-> stats.total_rounds + 1,
                   first_blood_rounds |-> stats.first_blood_rounds
                                            + (IF killer_team # "" THEN 1 ELSE 0),
                   first_blood_wins   |-> stats.first_blood_wins
                                            + (IF killer_team # "" /\ killer_team = winning_team
                                               THEN 1 ELSE 0),
                   first_blood_losses |-> stats.first_blood_losses
                                            + (IF killer_team # "" /\ killer_team # winning_team
                                               THEN 1 ELSE 0) ]

\* the index after the in-place sort of the round's list
FbIndexAfterRound(index, round_info) ==
    IF Lower(Get(round_info, "winning_team", "")) = "" THEN index
    ELSE [ k \in DOMAIN index |->
             IF k = FbRoundNum(round_info) THEN SortByTime(index[k]) ELSE index[k] ]

RECURSIVE FbRounds(_, _, _, _)
FbRounds(stats, index, match_rounds, i) ==
    IF i > Len(match_rounds) THEN stats
    ELSE FbRounds(FbRound(stats, index, match_rounds[i]),
                  FbIndexAfterRound(index, match_rounds[i]), match_rounds, i + 1)

\* the counters after one match; a match without kills or rounds is skipped
FbMatch(stats, match) ==
    LET match_kills  == Get(match, "kills", << >>)
        match_rounds == Get(match, "rounds", << >>)
    IN  IF match_kills = << >> \/ match_rounds = << >> THEN stats
        ELSE FbRounds(stats, GroupKillsByRound(match_kills), match_rounds, 1)

RECURSIVE FbMatches(_, _, _)
FbMatches(stats, all_matches, i) ==
    IF i > Len(all_matches) THEN stats
    ELSE FbMatches(FbMatch(stats, all_matches[i]), all_matches, i + 1)

\* the returned dict; win_rate in tenths of a percent
analyze_first_blood_win_rate(all_matches) ==
    LET stats == FbMatches(FbZero, all_matches, 1)
    IN  [ total_rounds       |-> stats.total_rounds,
          first_blood_rounds |-> stats.first_blood_rounds,
          first_blood_wins   |-> stats.first_blood_wins,
          first_blood_losses |-> stats.first_blood_losses,
          win_rate           |-> IF stats.first_blood_rounds > 0
                                 THEN RoundPct(stats.first_blood_wins, stats.first_blood_rounds)
                                 ELSE 0 ]

\* the address of the list 'round_kills.sort(...)' sorts in a round: that
\* stored under the round number, none when the round has no winner or its
\* number is no key of the index
FbRoundRef(index, round_info) ==
    IF Lower(Get(round_info, "winning_team", "")) = "" THEN { }
    ELSE IF FbRoundNum(round_info) \notin DOMAIN index THEN { }
    ELSE { index[FbRoundNum(round_info)] }

\* the objects after the loop over the rounds of a match
RECURSIVE FbObjects(_, _, _, _)
FbObjects(index, objects, match_rounds, i) ==
    IF i > Len(match_rounds) THEN objects
    ELSE FbObjects(index, SortInPlace(objects, FbRoundRef(index, match_rounds[i])),
                   match_rounds, i + 1)

\* the match record after the call, read through its objects
MatchAfterFirstBlood(match) ==
    LET match_kills  == Get(match, "kills", << >>)
        match_rounds == Get(match, "rounds", << >>)
    IN  IF match_kills = << >> \/ match_rounds = << >> THEN match
        ELSE LET grouped == GroupRefs(NoIndex, Objects(match, NoLists), match_kills, 1)
             IN  MatchOfObjects(match, FbObjects(grouped.index, grouped.objects,
                                                 match_rounds, 1))

-----------------------------------------------------------------------------
(* log_match_data: first bloods and first deaths *)

\* the loop over round_kills.items() reads, for a round number, the list
\* indexed under exactly that number
LogRoundKills(index, round_num) ==
    IF round_num \in DOMAIN index THEN index[round_num] ELSE << >>

-----------------------------------------------------------------------------
(* count_multikills *)

\* round_data.get('kills', round_data.get('player_kills', 0))
KillsInRound(round_data) == Get(round_data, "kills", Get(round_data, "player_kills", 0))

\* variant: a round with 5 kills or more is counted in the 4k bucket
MultikillBucketNoFive(k) ==
    IF k < 2 THEN ""
    ELSE IF k = 2 THEN "2k"
    ELSE IF k = 3 THEN "3k"
    ELSE "4k"

\* the bucket a round with k kills is counted in; "" for none
MultikillBucket(k) ==
    IF k < 2 THEN ""
    ELSE IF k = 2 THEN "2k"
    ELSE IF k = 3 THEN "3k"
    ELSE IF k = 4 THEN "4k"
    ELSE "5k"

count_multikills(player_rounds) ==
    [ b \in { "2k", "3k", "4k", "5k" } |->
        Cardinality({ i \in 1..Len(player_rounds) :
                        MultikillBucket(KillsInRound(player_rounds[i])) = b }) ]

\* the player's round stats of a match, the list count_multikills is applied to
PlayerRounds(match, puuid) ==
    LET rs   == Get(match, "rounds", << >>)
        with == SelectSeq([ i \in 1..Len(rs) |-> i ],
                          LAMBDA i : FindPlayerStats(rs[i], puuid) # << >>)
    IN  [ j \in 1..Len(with) |-> FindPlayerStats(rs[with[j]], puuid)[1] ]

-----------------------------------------------------------------------------
(* analyze_effective_loadouts *)

\* a dict without entries
EmptyDict == [ k \in { } |-> 0 ]

\* the weapon names that occur, in the order Python sorts strings
WeaponOrder == << "Classic", "Ghost", "Phantom", "Spectre", "Unknown", "Vandal" >>

WeaponRank(w) == CHOOSE i \in 1..Len(WeaponOrder) : WeaponOrder[i] = w

InsertWeapon(s, w) ==
    LET n == Cardinality({ i \in 1..Len(s) : WeaponRank(s[i]) <= WeaponRank(w) })
    IN  SubSeq(s, 1, n) \o << w >> \o SubSeq(s, n + 1, Len(s))

\* sorted(list of weapon names)
RECURSIVE SortWeapons(_)
SortWeapons(s) ==
    IF s = << >> THEN << >>
    ELSE InsertWeapon(SortWeapons(SubSeq(s, 1, Len(s) - 1)), s[Len(s)])

\* rounds left out of the loadout analysis
PistolRounds == { 1, 2, 13, 14 }

\* players of a full team
FullTeam == 5

\* weapons kept in a signature
SignatureWeapons == 3

\* rounds a signature needs to be reported
MinLoadoutRounds == 5

\* signatures reported at most
TopLoadouts == 10

\* round_info.get('round_num', round_info.get('round', 0))
LoadoutRoundNum(round_info) == Get(round_info, "round_num", Get(round_info, "round", 0))

\* the entry team_loadouts gets for one player stat
PlayerLoadout(player_stat) ==
    LET economy_data == Get(player_stat, "economy", EmptyDict)
    IN  [ weapon        |-> Get(Get(economy_data, "weapon", EmptyDict), "name", "Unknown"),
          armor         |-> Get(Get(economy_data, "armor", EmptyDict), "name", "None"),
          loadout_value |-> Get(economy_data, "loadout_value", 0) ]

\* team_loadouts[team] of a round
TeamLoadouts(round_info, team) ==
    LET stats == SelectSeq(Get(round_info, "player_stats", << >>),
                           LAMBDA ps : Lower(Get(ps, "team", "")) = team)
    IN  [ i \in 1..Len(stats) |-> PlayerLoadout(stats[i]) ]

RECURSIVE SumValues(_, _)
SumValues(loadouts, i) ==
    IF i > Len(loadouts) THEN 0
    ELSE loadouts[i].loadout_value + SumValues(loadouts, i + 1)

\* the signature of a full team: the first three weapon names in sorted
\* order, the number of players with armor, the team's loadout value.  The
\* code formats it as the string "w1-w2-w3|A<count>|$<value>"; the tuple
\* stands for that string (no weapon name holds a '-' or a '|').
LoadoutSignature(loadouts) ==
    LET weapons == SortWeapons([ i \in 1..Len(loadouts) |-> loadouts[i].weapon ])
    IN  [ primary_weapons |-> SubSeq(weapons, 1, SignatureWeapons),
          armor_count     |-> Cardinality({ i \in 1..Len(loadouts) :
                                              loadouts[i].armor # "None" }),
          total_value     |-> SumValues(loadouts, 1) ]

\* loadout_stats, a dict in insertion order, as the list of its items; the
\* observation of one team in one round
AddObservation(loadout_stats, signature, won) ==
    IF \E i \in 1..Len(loadout_stats) : loadout_stats[i].signature = signature
    THEN [ i \in 1..Len(loadout_stats) |->
             IF loadout_stats[i].signature = signature
             THEN [ loadout_stats[i] EXCEPT !.total_rounds = @ + 1,
                                            !.wins = @ + (IF won THEN 1 ELSE 0) ]
             ELSE loadout_stats[i] ]
    ELSE Append(loadout_stats,
                [ signature       |-> signature,
                  total_rounds    |-> 1,
                  wins            |-> IF won THEN 1 ELSE 0,
                  total_value     |-> signature.total_value,
                  win_rate        |-> 0,
                  primary_weapons |-> signature.primary_weapons,
                  armor_count     |-> signature.armor_count ])

\* loadout_stats after one team of a round
LoadoutTeam(loadout_stats, round_info, team, winning_team) ==
    LET loadouts == TeamLoadouts(round_info, team)
    IN  IF Len(loadouts) = FullTeam
        THEN AddObservation(loadout_stats, LoadoutSignature(loadouts), team = winning_team)
        ELSE loadout_stats

\* loadout_stats after one round record
LoadoutRound(loadout_stats, round_info) ==
    LET winning_team == Lower(Get(round_info, "winning_team", ""))
    IN  IF LoadoutRoundNum(round_info) \in PistolRounds \/ winning_team = ""
        THEN loadout_stats
        ELSE LoadoutTeam(LoadoutTeam(loadout_stats, round_info, "red", winning_team),
                         round_info, "blue", winning_team)

\* the loop over the rounds of a match (the test of the dict of a round makes
\* TLC compute it before the next round, not as one nested expression at the end)
RECURSIVE LoadoutRounds(_, _, _)
LoadoutRounds(loadout_stats, match_rounds, i) ==
    IF i > Len(match_rounds) THEN loadout_stats
    ELSE LET after == LoadoutRound(loadout_stats, match_rounds[i])
         IN  IF after = << >> THEN LoadoutRounds(<< >>, match_rounds, i + 1)
             ELSE LoadoutRounds(after, match_rounds, i + 1)

RECURSIVE LoadoutMatches(_, _, _)
LoadoutMatches(loadout_stats, all_matches, i) ==
    IF i > Len(all_matches) THEN loadout_stats
    ELSE LoadoutMatches(LoadoutRounds(loadout_stats, Get(all_matches[i], "rounds", << >>), 1),
                        all_matches, i + 1)

\* stats['win_rate'] = round(wins / total_rounds * 100, 1)
WithWinRates(loadout_stats) ==
    [ i \in 1..Len(loadout_stats) |->
        [ loadout_stats[i] EXCEPT !.win_rate = RoundPct(loadout_stats[i].wins,
                                                        loadout_stats[i].total_rounds) ] ]

\* the sort key (win_rate / max(total_value, 1)) * 100, a float: win_rate is
\* the double nearest to its tenths
EfficiencyKey(e) == FMulInt(FDivInt(FDiv(e.win_rate, 10), Max(e.total_value, 1)), 100)

\* a's key is greater than b's
MoreEfficient(a, b) == FCmp(EfficiencyKey(a), EfficiencyKey(b)) > 0

InsertByEfficiency(s, e) ==
    LET n == Cardinality({ i \in 1..Len(s) : ~ MoreEfficient(e, s[i]) })
    IN  SubSeq(s, 1, n) \o << e >> \o SubSeq(s, n + 1, Len(s))

\* sorted(..., key=efficiency, reverse=True): descending, equal keys in input order
RECURSIVE SortByEfficiency(_)
SortByEfficiency(s) ==
    IF s = << >> THEN << >>
    ELSE InsertByEfficiency(SortByEfficiency(SubSeq(s, 1, Len(s) - 1)), s[Len(s)])

\* the returned dict, as the list of its items in order
analyze_effective_loadouts(all_matches) ==
    LET loadout_stats == WithWinRates(LoadoutMatches(<< >>, all_matches, 1))
        meaningful    == SelectSeq(loadout_stats, LAMBDA e : e.total_rounds >= MinLoadoutRounds)
    IN  IF meaningful # << >>
        THEN LET sorted_loadouts == SortByEfficiency(meaningful)
             IN  SubSeq(sorted_loadouts, 1, IF Len(sorted_loadouts) < TopLoadouts
                                            THEN Len(sorted_loadouts) ELSE TopLoadouts)
        ELSE loadout_stats

-----------------------------------------------------------------------------
(* Inputs of the general KAST specification: every round is one case, a    *)
(* player_stats list together with the kill events tagged with that round. *)

MaxRounds == 2

MaxTotalRounds == 3

\* the analysed player's round stat with the given counters and extra fields
Stat(kills, assists) == [ player_puuid |-> "p1", kills |-> kills, assists |-> assists ]

PlainStats == { Stat(k, a) : k \in 0..1, a \in 0..1 }

SurvivalStats ==
    { [ player_puuid |-> "p1", kills |-> 0, assists |-> 0, alive |-> TRUE ],
      [ player_puuid |-> "p1", kills |-> 0, assists |-> 0, alive |-> FALSE ],
      [ player_puuid |-> "p1", kills |-> 0, assists |-> 0, was_alive |-> TRUE ],
      [ player_puuid |-> "p1", kills |-> 0, assists |-> 0, survived |-> TRUE ],
      [ player_puuid |-> "p1", kills |-> 0, assists |-> 0, died_in_round |-> FALSE ],
      [ player_puuid |-> "p1", kills |-> 0, assists |-> 0, died_in_round |-> TRUE ] }

\* a kill event without its round tag
Kill(killer, victim, time) ==
    [ killer_puuid |-> killer, victim_puuid |-> victim, kill_time_in_round |-> time ]

NoKills == << >>

DiesUntraded == << Kill("p2", "p1", 10000) >>

DiesTraded == << Kill("p2", "p1", 10000), Kill("p3", "p2", 14999) >>

OthersFight == << Kill("p3", "p2", 3000) >>

DiesAssisting ==
    << [ killer_puuid |-> "p3", victim_puuid |-> "p2", kill_time_in_round |-> 2000,
         assistants |-> << [ assistant_puuid |-> "p1" ] >> ],
       Kill("p2", "p1", 10000) >>

RoundCases ==
    { [ stats |-> << s >>, kills |-> k ] :
        s \in PlainStats \cup SurvivalStats, k \in { NoKills, DiesUntraded } }
    \cup
    { [ stats |-> << Stat(0, 0) >>, kills |-> k ] : k \in { DiesTraded, DiesAssisting, OthersFight } }
    \cup
    { [ stats |-> << >>, kills |-> DiesUntraded ],
      [ stats |-> << [ player_puuid |-> "p2", kills |-> 1, assists |-> 0 ] >>,
        kills |-> NoKills ] }

\* the kill events of a case, tagged with round number n
Tagged(kills, n) ==
    [ i \in 1..Len(kills) |->
        [ f \in DOMAIN kills[i] \cup { "round" } |->
            IF f = "round" THEN n ELSE kills[i][f] ] ]

RECURSIVE KillsOfCases(_, _)
KillsOfCases(cases, i) ==
    IF i > Len(cases) THEN << >>
    ELSE Tagged(cases[i].kills, i) \o KillsOfCases(cases, i + 1)

\* the match record of a sequence of cases: round i is numbered i
MatchOfCases(cases) ==
    [ rounds |-> [ i \in 1..Len(cases) |->
                     [ round_num |-> i, player_stats |-> cases[i].stats ] ],
      kills  |-> KillsOfCases(cases, 1) ]

\* the state before the first call
Fresh ==
    /\ pc = "call"
    /\ kills_by_round = NoIndex
    /\ heap = NoLists
    /\ rounds_checked = 0
    /\ kast_rounds = 0
    /\ debug_info = << >>
    /\ result = 0
    /\ returned = << >>
    /\ log_store = NoLogs
    /\ today = FirstDay
    /\ requested = Request
    /\ user_links = NoLinks
    /\ pulling = NotPulling

InitKast ==
    /\ \E n \in 0..MaxRounds : \E cases \in [ 1..n -> RoundCases ] :
          match_data = MatchOfCases(cases)
    /\ \/ player_puuid = "p1" /\ total_rounds \in 0..MaxTotalRounds
       \/ player_puuid = "" /\ total_rounds = MaxTotalRounds
    /\ Fresh

NextKastOnce == KastCall \/ KastRound \/ KastReturn

SpecKast == InitKast /\ [][NextKastOnce]_vars

-----------------------------------------------------------------------------
(* Properties of calculate_kast under SpecKast *)

\* the rounds of the match, by position, that hold a stat of the player
StatRounds(m, puuid) ==
    LET rs == Get(m, "rounds", << >>)
    IN  SelectSeq([ i \in 1..Len(rs) |-> i ],
                  LAMBDA i : FindPlayerStats(rs[i], puuid) # << >>)

\* the player's stat of the round the j-th debug_info entry was made for
StatOfEntry(j) ==
    FindPlayerStats(match_data.rounds[StatRounds(match_data, player_puuid)[j]],
                    player_puuid)[1]

\* the match with the player's kills of round i set to 1
WithKill(m, i, puuid) ==
    LET stats == m.rounds[i].player_stats
        hit   == CHOOSE h \in 1..Len(stats) :
                    /\ Get(stats[h], "player_puuid", None) = puuid
                    /\ \A g \in 1..(h - 1) : Get(stats[g], "player_puuid", None) # puuid
    IN  [ m EXCEPT !.rounds[i].player_stats[hit].kills = 1 ]

\* the rounds whose stat of the player records no kill
KillFreeRounds ==
    { i \in Range(StatRounds(match_data, player_puuid)) :
        Get(FindPlayerStats(match_data.rounds[i], player_puuid)[1], "kills", 1) = 0 }

\* C3: a round whose stat of the player has kills > 0 counts toward KAST, and
\* setting the kills of one round from 0 to a positive number never lowers
\* the value calculate_kast returns for the match.
C3_KillCountsAndIsMonotone ==
    /\ \A j \in 1..Len(debug_info) :
          Get(StatOfEntry(j), "kills", 0) > 0 => debug_info[j].kast
    /\ (pc = "done" /\ ~ KastEarlyReturn(match_data, player_puuid, total_rounds)) =>
          \A i \in KillFreeRounds :
             calculate_kast(WithKill(match_data, i, player_puuid),
                            player_puuid, total_rounds) >= result

\* a round with a kill counted, and a round where adding the kill raises the value
C3_Witness ==
    /\ pc = "done"
    /\ \E j \in 1..Len(debug_info) :
          /\ Get(StatOfEntry(j), "kills", 0) > 0
          /\ ~ debug_info[j].assist /\ ~ debug_info[j].survive /\ ~ debug_info[j].trade
          /\ debug_info[j].kast
    /\ \E i \in KillFreeRounds :
          calculate_kast(WithKill(match_data, i, player_puuid),
                         player_puuid, total_rounds) > result

\* a survival field of the stat that is truthy
TruthySurvivalField(stat) ==
    \/ ("alive" \in DOMAIN stat /\ stat.alive)
    \/ ("was_alive" \in DOMAIN stat /\ stat.was_alive)
    \/ ("survived" \in DOMAIN stat /\ stat.survived)
    \/ ("died_in_round" \in DOMAIN stat /\ ~ stat.died_in_round)

IsVictimIn(events, puuid) ==
    \E i \in 1..Len(events) :
        "victim_puuid" \in DOMAIN events[i] /\ events[i].victim_puuid = puuid

\* the kill events of the match tagged with round number n
OwnEvents(n) == SelectSeq(Get(match_data, "kills", << >>), LAMBDA e : Get(e, "round", 0) = n)

\* C5: a round is survived iff a survival field of the stat is truthy or the
\* player is no victim among the kill events looked up for the round; with no
\* truthy field, a victim of the round's own kill events has not survived.
C5_Survive ==
    \A j \in 1..Len(debug_info) :
        LET stat == StatOfEntry(j)
            e    == debug_info[j]
        IN  /\ e.survive <=> ( \/ TruthySurvivalField(stat)
                               \/ ~ IsVictimIn(e.round_kills_list, player_puuid) )
            /\ ( ~ TruthySurvivalField(stat) /\ IsVictimIn(OwnEvents(e.round), player_puuid) )
                  => ~ e.survive

\* one round survived by a field although the player died, one not survived,
\* and (second disjunct) one survived because the events hold no death
C5_Witness ==
    /\ pc = "done"
    /\ \E j \in 1..Len(debug_info) :
          /\ ~ TruthySurvivalField(StatOfEntry(j))
          /\ IsVictimIn(OwnEvents(debug_info[j].round), player_puuid)
          /\ ~ debug_info[j].survive
    /\ \E j \in 1..Len(debug_info) :
          \/ /\ TruthySurvivalField(StatOfEntry(j))
             /\ IsVictimIn(debug_info[j].round_kills_list, player_puuid)
             /\ debug_info[j].survive
          \/ /\ ~ TruthySurvivalField(StatOfEntry(j))
             /\ debug_info[j].round_kills_list # << >>
             /\ debug_info[j].survive

\* the number of rounds of the match that meet a KAST criterion
KastRoundsOfMatch ==
    IF Get(match_data, "rounds", << >>) = << >> THEN 0
    ELSE KastCount(match_data, player_puuid,
                   GroupKillsByRound(Get(match_data, "kills", << >>)), 1)

RoundsObserved == Len(Get(match_data, "rounds", << >>))

\* C6 as stated: every call returns
\* round(100 * kastRounds / max(roundsObserved, total_rounds), 1).
C6_Original ==
    (pc = "done" /\ Max(RoundsObserved, total_rounds) > 0) =>
        result = RoundPct(KastRoundsOfMatch, Max(RoundsObserved, total_rounds))

\* C6 amended: unless total_rounds is 0 or the player id is empty (the call
\* then returns 0.0), the call returns Python's
\* round((kastRounds / max(roundsObserved, total_rounds)) * 100, 1); roundsObserved
\* counts every round record, and a round without a stat of the player is
\* never counted as a KAST round.
C6_Aggregate ==
    pc = "done" =>
        IF total_rounds = 0 \/ player_puuid = "" THEN result = 0
        ELSE /\ result = RoundPct(Cardinality({ j \in 1..Len(debug_info) : debug_info[j].kast }),
                                  Max(RoundsObserved, total_rounds))
             /\ KastRoundsOfMatch = Cardinality({ j \in 1..Len(debug_info) : debug_info[j].kast })
             /\ Len(debug_info) = Len(StatRounds(match_data, player_puuid))
             /\ RoundsObserved > 0 => rounds_checked = RoundsObserved

\* a finished call on a match with a round that has no stat of the player and
\* a round that counts, with fewer rounds played than observed
C6_Witness ==
    /\ pc = "done"
    /\ total_rounds > 0 /\ total_rounds < RoundsObserved
    /\ Len(debug_info) < RoundsObserved
    /\ result = RoundPct(1, RoundsObserved)
    /\ kast_rounds = 1

\* C7: with roundsPlayed == 0 or an empty rounds list the call returns 0.0,
\* and it returns before any round or kill event is read.
C7_EmptyIsZero ==
    (total_rounds = 0 \/ Get(match_data, "rounds", << >>) = << >>) =>
        /\ pc # "loop"
        /\ pc = "done" => result = 0 /\ debug_info = << >> /\ kills_by_round = NoIndex

\* a finished call with roundsPlayed = 0 on a match whose rounds would count
C7_Witness ==
    /\ pc = "done"
    /\ total_rounds = 0
    /\ player_puuid # ""
    /\ KastRoundsOfMatch > 0
    /\ result = 0

\* C8: the number of KAST rounds never exceeds the denominator
\* max(rounds_checked, total_rounds), and the returned percentage is in [0, 100].
C8_Range ==
    /\ kast_rounds <= Max(rounds_checked, total_rounds)
    /\ kast_rounds <= rounds_checked
    /\ 0 <= result /\ result <= 1000

\* every observed round counts and fewer rounds were reported than observed
C8_Witness ==
    /\ pc = "done"
    /\ result = 1000
    /\ total_rounds > 0 /\ total_rounds < rounds_checked
    /\ kast_rounds = rounds_checked

-----------------------------------------------------------------------------
(* Inputs of the lookup specification: round records that carry their      *)
(* number in any of the three fields or in none, and kill events tagged    *)
(* with round numbers that need not be those of the round records.  The    *)
(* events of a match are in descending time order, so that every in-place  *)
(* sort of a list of two or more events reorders it.                       *)

MaxLookupRounds == 2

MaxLookupKills == 2

MaxRoundNum == 1

LookupRoundRecs ==
    { [ winning_team |-> "Red", player_stats |-> << Stat(0, 0) >> ] }
    \cup { [ round_num |-> n, winning_team |-> "Red", player_stats |-> << Stat(0, 0) >> ] :
             n \in 0..MaxRoundNum }
    \cup { [ round |-> n, winning_team |-> "Red", player_stats |-> << Stat(0, 0) >> ] :
             n \in 0..MaxRoundNum }
    \cup { [ round_number |-> n, winning_team |-> "Red", player_stats |-> << Stat(0, 0) >> ] :
             n \in 0..MaxRoundNum }

\* the i-th of k kill events, tagged with round number tag
LookupKill(tag, i, k) ==
    [ round |-> tag, killer_puuid |-> "p2", victim_puuid |-> "p3", killer_team |-> "Red",
      kill_time_in_round |-> (k - i) * 1000 ]

InitLookup ==
    /\ \E n \in 0..MaxLookupRounds : \E rs \in [ 1..n -> LookupRoundRecs ] :
       \E k \in 0..MaxLookupKills : \E tags \in [ 1..k -> 0..(MaxRoundNum + 1) ] :
          match_data = [ rounds |-> rs,
                         kills  |-> [ i \in 1..k |-> LookupKill(tags[i], i, k) ] ]
    /\ player_puuid = "p1"
    /\ total_rounds = 1
    /\ Fresh

SpecLookup == InitLookup /\ [][NextKastOnce]_vars

\* the key of the kill index that serves round number n: n if an event is
\* tagged n, else n + 1, else n - 1; no key if no event carries any of them
TaggedRounds == { Get(e, "round", 0) : e \in Range(Get(match_data, "kills", << >>)) }

ServingKey(n) ==
    IF n \in TaggedRounds THEN { n }
    ELSE IF n + 1 \in TaggedRounds THEN { n + 1 }
    ELSE IF n - 1 \in TaggedRounds THEN { n - 1 }
    ELSE { }

\* C1: the kill events calculate_kast uses for a round numbered n are those
\* indexed under n if that key exists, otherwise those under n + 1, otherwise
\* those under n - 1 (in input order, or in time order once an earlier round
\* has sorted that list), and the empty list only if none of the keys exists.
C1_FallbackLookup ==
    \A j \in 1..Len(debug_info) :
        LET e == debug_info[j]
        IN  IF ServingKey(e.round) = { } THEN e.round_kills_list = << >>
            ELSE \E k \in ServingKey(e.round) :
                    /\ e.round_kills_list # << >>
                    /\ e.round_kills_list \in { OwnEvents(k), SortByTime(OwnEvents(k)) }

\* a round without events of its own number for which both neighbours have
\* events, served by the events of the next round number
C1_Witness ==
    \E j \in 1..Len(debug_info) :
        LET e == debug_info[j]
        IN  /\ e.round \notin TaggedRounds
            /\ e.round + 1 \in TaggedRounds
            /\ e.round - 1 \in TaggedRounds
            /\ e.round_kills_list = OwnEvents(e.round + 1)

-----------------------------------------------------------------------------
(* Inputs of the trade specification: one round in which the player has no *)
(* kill and no assist, and any list of kill events among three players     *)
(* with times on both sides of the 5 seconds window.                       *)

MaxTradeKills == 3

TradePlayers == { "p1", "p2", "p3" }

TradeTimes == { 0, TradeWindow, TradeWindow + 1 }

TradeEvents ==
    { [ round |-> 1, killer_puuid |-> k, victim_puuid |-> v, kill_time_in_round |-> t ] :
        k \in TradePlayers, v \in TradePlayers, t \in TradeTimes } \
    { e \in [ round : { 1 }, killer_puuid : TradePlayers, victim_puuid : TradePlayers,
              kill_time_in_round : TradeTimes ] : e.killer_puuid = e.victim_puuid }

InitTrade ==
    /\ \E k \in 0..MaxTradeKills : \E ks \in [ 1..k -> TradeEvents ] :
          match_data = [ rounds |-> << [ round_num |-> 1, player_stats |-> << Stat(0, 0) >> ] >>,
                         kills  |-> ks ]
    /\ player_puuid = "p1"
    /\ total_rounds = 1
    /\ Fresh

SpecTrade == InitTrade /\ [][NextKastOnce]_vars

\* the kill events of the round, in input order
RoundEvents == Get(match_data, "kills", << >>)

\* the deaths of the player, as positions of RoundEvents
Deaths == { i \in 1..Len(RoundEvents) : RoundEvents[i].victim_puuid = player_puuid }

\* the earliest death: smallest time, the first in input order among equals
EarliestDeath ==
    CHOOSE i \in Deaths :
        \A d \in Deaths :
            \/ RoundEvents[i].kill_time_in_round < RoundEvents[d].kill_time_in_round
            \/ /\ RoundEvents[i].kill_time_in_round = RoundEvents[d].kill_time_in_round
               /\ i <= d

\* another event that kills the killer of death i, not made by the player,
\* at most 5000 ms before or after the death
TradedDeath(i) ==
    \E j \in 1..Len(RoundEvents) :
        /\ j # i
        /\ RoundEvents[j].victim_puuid = RoundEvents[i].killer_puuid
        /\ RoundEvents[j].killer_puuid # player_puuid
        /\ \/ /\ RoundEvents[j].kill_time_in_round >= RoundEvents[i].kill_time_in_round
              /\ RoundEvents[j].kill_time_in_round - RoundEvents[i].kill_time_in_round <= 5000
           \/ /\ RoundEvents[j].kill_time_in_round < RoundEvents[i].kill_time_in_round
              /\ RoundEvents[i].kill_time_in_round - RoundEvents[j].kill_time_in_round <= 5000

\* C4 as stated: the player is marked as traded when some death of the player
\* has a trade kill within 5000 ms, and is not marked when no death has one.
C4_Original ==
    \A n \in 1..Len(debug_info) :
        debug_info[n].trade <=> \E i \in Deaths : TradedDeath(i)

\* C4 amended: the player is marked as traded exactly when the earliest death
\* of the player in the round (the only one examined) has a trade kill: another
\* event of the round whose victim is that death's killer, whose killer is not
\* the player, at most 5000 ms before or after the death; a kill of the killer
\* 5001 ms or more away never marks the player as traded.
C4_TradeWindow ==
    \A n \in 1..Len(debug_info) :
        debug_info[n].trade <=> (Deaths # { } /\ TradedDeath(EarliestDeath))

\* marked as traded by a kill exactly 5000 ms before the death
C4_Witness ==
    /\ Len(debug_info) = 1
    /\ debug_info[1].trade
    /\ Cardinality(Deaths) = 1
    /\ \A j \in 1..Len(RoundEvents) :
          j \notin Deaths =>
             RoundEvents[EarliestDeath].kill_time_in_round
                - RoundEvents[j].kill_time_in_round = 5000

-----------------------------------------------------------------------------
(* The end-to-end scenario: a match of 13 rounds for player "p1" with      *)
(* kills in rounds 1, 3 and 5, an assist in round 2, round 4 survived      *)
(* untouched, a traded death in round 6 and an untraded death without kill *)
(* or assist in rounds 7 to 13.  The scenario leaves open when the trade   *)
(* kill falls inside the window, whether the assist is recorded in the     *)
(* round stat or in the kill event, and whether the player dies in the     *)
(* rounds with kills.                                                      *)

ScenarioTradeTimes == { 5000, 14999, 15000 }

\* the stat list and the kill events of round n of the scenario
ScenarioCase(n, trade_time, assist_in_stat, dies_after_kill) ==
    IF n \in { 1, 3, 5 }
    THEN [ stats |-> << Stat(1, 0) >>,
           kills |-> << Kill("p1", "p2", 8000) >>
                     \o (IF dies_after_kill THEN << Kill("p3", "p1", 20000) >> ELSE << >>) ]
    ELSE IF n = 2
    THEN [ stats |-> << Stat(0, IF assist_in_stat THEN 1 ELSE 0) >>,
           kills |-> << [ killer_puuid |-> "p4", victim_puuid |-> "p2",
                          kill_time_in_round |-> 3000,
                          assistants |-> IF assist_in_stat THEN << >>
                                         ELSE << [ assistant_puuid |-> "p1" ] >> ],
                        Kill("p3", "p1", 9000) >> ]
    ELSE IF n = 4
    THEN [ stats |-> << Stat(0, 0) >>, kills |-> << Kill("p4", "p2", 7000) >> ]
    ELSE IF n = 6
    THEN [ stats |-> << Stat(0, 0) >>,
           kills |-> << Kill("p2", "p1", 10000), Kill("p4", "p2", trade_time) >> ]
    ELSE [ stats |-> << Stat(0, 0) >>, kills |-> << Kill("p2", "p1", 10000) >> ]

InitScenario ==
    /\ \E trade_time \in ScenarioTradeTimes :
       \E assist_in_stat \in BOOLEAN : \E dies_after_kill \in BOOLEAN :
          match_data = MatchOfCases([ n \in 1..13 |->
                          ScenarioCase(n, trade_time, assist_in_stat, dies_after_kill) ])
    /\ player_puuid = "p1"
    /\ total_rounds = 13
    /\ Fresh

SpecScenario == InitScenario /\ [][NextKastOnce]_vars

\* C9 as stated: the KAST percentage of the scenario is round(100 * 5/13, 1) = 38.5.
C9_Original == pc = "done" => result = 385

\* C9 amended: in the scenario six rounds meet a KAST criterion (1, 3 and 5 by
\* kill, 2 by assist, 4 by survival, 6 by trade), so the KAST percentage is
\* round(100 * 6/13, 1) = 46.2.
C9_Scenario ==
    pc = "done" =>
        /\ result = 462
        /\ result = RoundPct(6, 13)
        /\ { n \in 1..13 : debug_info[n].kast } = 1..6

\* the finished call: each of the six rounds counted by its own criterion
C9_Witness ==
    /\ pc = "done"
    /\ rounds_checked = 13 /\ kast_rounds = 6
    /\ \A n \in { 1, 3, 5 } : debug_info[n].kill
    /\ debug_info[2].assist /\ ~ debug_info[2].kill /\ ~ debug_info[2].survive
    /\ debug_info[4].survive /\ ~ debug_info[4].kill /\ ~ debug_info[4].assist
    /\ debug_info[6].trade /\ ~ debug_info[6].survive /\ ~ debug_info[6].kill
    /\ \A n \in 7..13 : ~ debug_info[n].kast
    /\ result = 462

\* the round records, by position, that have a debug_info entry
EntryRound(j) == match_data.rounds[StatRounds(match_data, player_puuid)[j]]

\* the events of a list, without their order
EventsOf(list) == Range(list)

\* C2: for the same match and round, calculate_kast, analyze_first_blood_win_rate
\* and the first-blood counters of log_match_data select the same kill events
\* (rounds for which the functions read the same round number).
C2_SameLookupEverywhere ==
    \A j \in 1..Len(debug_info) :
        LET index == GroupKillsByRound(Get(match_data, "kills", << >>))
            n     == debug_info[j].round
        IN  FbRoundNum(EntryRound(j)) = n =>
               /\ EventsOf(debug_info[j].round_kills_list) = EventsOf(FbRoundKills(index, n))
               /\ EventsOf(debug_info[j].round_kills_list) = EventsOf(LogRoundKills(index, n))

-----------------------------------------------------------------------------
(* Inputs of the analytics specification: matches of full teams, five      *)
(* players "p1".."p5" on Red and "p6".."p10" on Blue, with economy data,   *)
(* round winners and kill events that are not in time order; any of the    *)
(* analytics functions is called on the record, MaxCalls times in all.     *)

MaxAnalyticsRounds == 2

RedPlayers == << "p1", "p2", "p3", "p4", "p5" >>

BluePlayers == << "p6", "p7", "p8", "p9", "p10" >>

Economy(weapon, armor, value) ==
    [ loadout_value |-> value, weapon |-> [ name |-> weapon ], armor |-> [ name |-> armor ] ]

FullStat(puuid, team, kills, economy) ==
    [ player_puuid |-> puuid, team |-> team, kills |-> kills, assists |-> 0,
      economy |-> economy ]

\* a full buy with a traded death of p1, the trade kill listed after the death
\* though it happened before; and a save round in which p1 has three kills
AnalyticsCase(variant) ==
    IF variant = "buy"
    THEN [ stats |-> [ i \in 1..5 |-> FullStat(RedPlayers[i], "Red", 0,
                                              Economy("Vandal", "Heavy Shields", 3900)) ]
                     \o [ i \in 1..5 |-> FullStat(BluePlayers[i], "Blue", IF i = 1 THEN 1 ELSE 0,
                                                  Economy("Phantom", "Heavy Shields", 3900)) ],
           kills |-> << [ killer_puuid |-> "p6", victim_puuid |-> "p1", killer_team |-> "Blue",
                          kill_time_in_round |-> 10000 ],
                        [ killer_puuid |-> "p2", victim_puuid |-> "p6", killer_team |-> "Red",
                          kill_time_in_round |-> 6000 ] >> ]
    ELSE [ stats |-> [ i \in 1..5 |-> FullStat(RedPlayers[i], "Red", IF i = 1 THEN 3 ELSE 0,
                                              Economy(IF i = 2 THEN "Ghost" ELSE "Classic",
                                                      "None", IF i = 2 THEN 500 ELSE 0)) ]
                     \o [ i \in 1..5 |-> FullStat(BluePlayers[i], "Blue", 0,
                                                  Economy("Spectre", "Light Shields", 2000)) ],
           kills |-> << [ killer_puuid |-> "p1", victim_puuid |-> "p6", killer_team |-> "Red",
                          kill_time_in_round |-> 3000 ] >> ]

RECURSIVE AnalyticsKills(_, _, _)
AnalyticsKills(cases, first, i) ==
    IF i > Len(cases) THEN << >>
    ELSE Tagged(AnalyticsCase(cases[i]).kills, first + i - 1)
         \o AnalyticsKills(cases, first, i + 1)

\* the match of a sequence of cases and winners; round i is numbered first + i - 1
AnalyticsMatch(cases, winners, first) ==
    [ rounds |-> [ i \in 1..Len(cases) |->
                     [ round_num |-> first + i - 1, winning_team |-> winners[i],
                       player_stats |-> AnalyticsCase(cases[i]).stats ] ],
      kills  |-> AnalyticsKills(cases, first, 1) ]

InitAnalytics ==
    /\ \E n \in 1..MaxAnalyticsRounds :
       \E cases \in [ 1..n -> { "buy", "save" } ] :
       \E winners \in [ 1..n -> { "Red", "Blue" } ] :
       \E first \in { 1, 3 } :
          match_data = AnalyticsMatch(cases, winners, first)
    /\ player_puuid = "p1"
    /\ total_rounds \in { 0, MaxAnalyticsRounds }
    /\ pc = "done"
    /\ kills_by_round = NoIndex
    /\ heap = NoLists
    /\ rounds_checked = 0
    /\ kast_rounds = 0
    /\ debug_info = << >>
    /\ result = 0
    /\ returned = << >>
    /\ log_store = NoLogs
    /\ today = FirstDay
    /\ requested = Request
    /\ user_links = NoLinks
    /\ pulling = NotPulling

\* analyze_first_blood_win_rate applied to the list holding the match record
\* (the function itself, on records that carry rounds and kills; the entries
\* /serverstats passes carry neither, see ServerReport)
FirstBloodCall ==
    /\ pc = "done"
    /\ Len(returned) < MaxCalls
    /\ returned' = Append(returned, [ fn    |-> "analyze_first_blood_win_rate",
                                      value |-> analyze_first_blood_win_rate(<< match_data >>) ])
    /\ match_data' = MatchAfterFirstBlood(match_data)
    /\ UNCHANGED << player_puuid, total_rounds, pc, kills_by_round, heap, rounds_checked,
                    kast_rounds, debug_info, result, logvars >>

\* analyze_effective_loadouts applied to the list holding the match record
\* (the function itself, on records that carry rounds)
LoadoutsCall ==
    /\ pc = "done"
    /\ Len(returned) < MaxCalls
    /\ returned' = Append(returned, [ fn    |-> "analyze_effective_loadouts",
                                      value |-> analyze_effective_loadouts(<< match_data >>) ])
    /\ UNCHANGED << match_data, player_puuid, total_rounds, pc, kills_by_round, heap,
                    rounds_checked, kast_rounds, debug_info, result, logvars >>

\* the caller calls count_multikills on the player's round stats of the record
MultikillsCall ==
    /\ pc = "done"
    /\ Len(returned) < MaxCalls
    /\ returned' = Append(returned, [ fn    |-> "count_multikills",
                                      value |-> count_multikills(PlayerRounds(match_data,
                                                                              player_puuid)) ])
    /\ UNCHANGED << match_data, player_puuid, total_rounds, pc, kills_by_round, heap,
                    rounds_checked, kast_rounds, debug_info, result, logvars >>

NextAnalytics ==
    \/ KastInvoke \/ KastCall \/ KastRound \/ KastReturn
    \/ FirstBloodCall \/ LoadoutsCall \/ MultikillsCall

SpecAnalytics == InitAnalytics /\ [][NextAnalytics]_vars

\* two calls of the same function returned the same value
SameResults ==
    \A i \in 1..Len(returned) : \A j \in 1..Len(returned) :
        returned[i].fn = returned[j].fn => returned[i].value = returned[j].value

\* C10: calling an analytics function twice on the same match record returns
\* the same result both times, and no step of any call changes the match
\* record, the order of its kills list included: the in-place sorts change
\* the list objects at the addresses the index holds, and the content of the
\* object at MatchKillsAddr stays what it was.
C10_Idempotent == [][match_data' = match_data]_vars /\ []SameResults

\* calculate_kast has returned twice, with a non-zero value, on a record whose
\* kills are not in time order, and has sorted the list of a round in place:
\* a list object of its own, at an address other than that of the record's
\* kills list
C10_Witness ==
    /\ Len(returned) = 2
    /\ returned[1].fn = "calculate_kast" /\ returned[2].fn = "calculate_kast"
    /\ returned[1].value > 0
    /\ match_data.kills # SortByTime(match_data.kills)
    /\ Lists(kills_by_round, Objects(match_data, heap)) # GroupKillsByRound(match_data.kills)
    /\ \E a \in DOMAIN heap : heap[a] # << >> /\ heap[a] = SortByTime(heap[a])
    /\ MatchKillsAddr \notin { kills_by_round[k] : k \in DOMAIN kills_by_round }

-----------------------------------------------------------------------------
(* Derived statistics.  A KDA ratio is a record: inf tells the float        *)
(* infinity from a finite value, which is kept in hundredths (150 stands    *)
(* for 1.5).  ADR is kept in tenths, ACS is an integer.                     *)

\* round(num / den, digits) in units of 1 / scale (scale = 10^digits), for
\* num >= 0 and den > 0.  Off a decimal tie the nearest unit of the exact
\* value is returned; at a tie the float quotient decides.
RoundScaled(num, den, scale) ==
    LET q == (scale * num) \div den
        r == (scale * num) % den
    IN  IF 2 * r = den THEN PyRoundAtTie(FDiv(num, den), q, scale)
        ELSE IF 2 * r > den THEN q + 1 ELSE q

\* int(a / b) for b > 0: the quotient truncated toward zero
TruncDiv(a, b) == IF a >= 0 THEN a \div b ELSE 0 - ((0 - a) \div b)

\* float('inf')
Inf == [ inf |-> TRUE, hundredths |-> 0 ]

\* a finite ratio, in hundredths
Finite(h) == [ inf |-> FALSE, hundredths |-> h ]

calculate_kda(kills, deaths, assists) ==
    IF deaths = 0
    THEN IF kills + assists > 0 THEN Inf ELSE Finite(0)
    ELSE Finite(RoundScaled(kills + assists, deaths, 100))

calculate_adr(damage_dealt, rounds_played) ==
    IF rounds_played = 0 THEN 0 ELSE RoundScaled(damage_dealt, rounds_played, 10)

calculate_hs_percentage(headshots, total_shots) ==
    IF total_shots = 0 THEN 0 ELSE RoundPct(headshots, total_shots)

\* the kda expression of log_match_data: without deaths it is the integer
\* kills + assists
LogKda(kills, deaths, assists) ==
    IF deaths > 0 THEN Finite(RoundScaled(kills + assists, deaths, 100))
    ELSE Finite(100 * (kills + assists))

\* the acs expression of log_match_data
LogAcs(total_score, rounds_played) ==
    IF rounds_played > 0 THEN TruncDiv(total_score, rounds_played) ELSE 0

\* get_acs and acs_display of create_comprehensive_match_embed: without
\* rounds played the value is the score itself
EmbedAcs(total_score, rounds_played) ==
    IF rounds_played > 0 THEN TruncDiv(total_score, rounds_played) ELSE total_score

\* the adr expression of log_match_data
LogAdr(damage, rounds_played) ==
    IF damage > 0 /\ rounds_played > 0 THEN RoundScaled(damage, rounds_played, 10) ELSE 0

\* the hs_pct expression of log_match_data
LogHsPct(headshots, total_shots) ==
    IF total_shots > 0 THEN RoundPct(headshots, total_shots) ELSE 0

-----------------------------------------------------------------------------
(* log_match_data *)

\* variant: the last event of the round is taken for its first kill
FirstKillLatest(index, r) ==
    LET sorted == SortByTime(LogRoundKills(index, r)) IN sorted[Len(sorted)]

\* the first kill event of the round whose events the index lists under r:
\* the head of the list after the stable sort by kill_time_in_round
FirstKill(index, r) == SortByTime(LogRoundKills(index, r))[1]

\* first_bloods and first_deaths of a player: the rounds of the index whose
\* first kill event has the player as killer, and as victim
FirstBloods(match_kills, puuid) ==
    IF match_kills = << >> \/ puuid = "" THEN 0
    ELSE LET index == GroupKillsByRound(match_kills)
         IN  Cardinality({ r \in DOMAIN index :
                             Get(FirstKill(index, r), "killer_puuid", None) = puuid })

FirstDeaths(match_kills, puuid) ==
    IF match_kills = << >> \/ puuid = "" THEN 0
    ELSE LET index == GroupKillsByRound(match_kills)
         IN  Cardinality({ r \in DOMAIN index :
                             Get(FirstKill(index, r), "victim_puuid", None) = puuid })

\* total_multikills: the rounds in which the player's stat has 3 kills or more
MultikillThreshold == 3

TotalMultikills(round_data, puuid) ==
    IF round_data = << >> \/ puuid = "" THEN 0
    ELSE Cardinality({ i \in 1..Len(round_data) :
                         LET found == FindPlayerStats(round_data[i], puuid)
                         IN  /\ found # << >>
                             /\ Get(found[1], "kills", 0) >= MultikillThreshold })

\* a JSON null in the place of a dict
Null == [ k \in { None } |-> None ]

\* the stats of the player are a JSON null
NullStats(player) == Get(player, "stats", EmptyDict) = Null

\* what a call leaves in the place of its value when it raises: stats.get is
\* called on the null stats of a player
AttributeError == "AttributeError"

\* the entry of processed_players for one player of the match
ProcessedPlayer(match, player, rounds_played, req) ==
    IF NullStats(player) THEN AttributeError
    ELSE
    LET stats       == Get(player, "stats", EmptyDict)
        kills       == Get(stats, "kills", 0)
        deaths      == Get(stats, "deaths", 0)
        assists     == Get(stats, "assists", 0)
        total_score == Get(stats, "score", 0)
        damage      == Get(player, "damage_made", 0)
        headshots   == Get(stats, "headshots", 0)
        total_shots == headshots + Get(stats, "bodyshots", 0) + Get(stats, "legshots", 0)
        puuid       == Get(player, "puuid", "")
        name        == Get(player, "name", "Unknown")
        tag_val     == Get(player, "tag", "0000")
    IN  [ name  |-> name,
          tag   |-> tag_val,
          team  |-> Get(player, "team", "Unknown"),
          rank  |-> Get(player, "currenttier_patched", "Unranked"),
          agent |-> Get(player, "character", "Unknown"),
          stats |-> [ kills        |-> kills,
                      deaths       |-> deaths,
                      assists      |-> assists,
                      acs          |-> LogAcs(total_score, rounds_played),
                      adr          |-> LogAdr(damage, rounds_played),
                      headshot_pct |-> LogHsPct(headshots, total_shots),
                      kda          |-> LogKda(kills, deaths, assists),
                      kast         |-> calculate_kast(match, puuid, rounds_played),
                      score        |-> total_score,
                      damage       |-> damage,
                      first_bloods |-> FirstBloods(Get(match, "kills", << >>), puuid),
                      first_deaths |-> FirstDeaths(Get(match, "kills", << >>), puuid),
                      multikills   |-> TotalMultikills(Get(match, "rounds", << >>), puuid),
                      plus_minus   |-> kills - deaths ],
          is_requested_player |-> (Lower(name) = Lower(req.username) /\ tag_val = req.tag) ]

\* metadata.get('matchid', 'unknown')
MatchId(match) == Get(Get(match, "metadata", EmptyDict), "matchid", "unknown")

\* the log entry of a match; the timestamp is the date of the clock (the call
\* reads the clock for the timestamp and again for the name of the file, with
\* no suspension between the two reads: both show the date now), and the
\* score string "red-blue" is the pair of the two numbers
LogEntry(match, req, now) ==
    LET metadata      == Get(match, "metadata", EmptyDict)
        rounds_played == Get(metadata, "rounds_played", 0)
        teams         == Get(match, "teams", EmptyDict)
        red_rounds    == Get(Get(teams, "red", EmptyDict), "rounds_won", 0)
        blue_rounds   == Get(Get(teams, "blue", EmptyDict), "rounds_won", 0)
        all_players   == Get(Get(match, "players", EmptyDict), "all_players", << >>)
    IN  [ timestamp        |-> now,
          match_id         |-> MatchId(match),
          requested_player |-> << req.username, req.tag >>,
          region           |-> req.region,
          match_info       |-> [ map           |-> Get(metadata, "map", "Unknown"),
                                 mode          |-> Get(metadata, "mode", "Unknown"),
                                 started_at    |-> Get(metadata, "game_start_patched", "Unknown"),
                                 rounds_played |-> rounds_played,
                                 score         |-> << red_rounds, blue_rounds >>,
                                 red_rounds    |-> red_rounds,
                                 blue_rounds   |-> blue_rounds ],
          players          |-> [ i \in 1..Len(all_players) |->
                                   ProcessedPlayer(match, all_players[i], rounds_played, req) ] ]

\* the content of the file of a date: the empty list when there is no file
DayFile(store, day) == IF day \in DOMAIN store THEN store[day] ELSE << >>

\* any(entry.get('match_id') == match_id for entry in existing_data)
MatchExists(existing_data, match_id) ==
    \E i \in 1..Len(existing_data) : Get(existing_data[i], "match_id", None) = match_id

\* the store after the write of existing_data to the file of a date
WriteDay(store, day, existing_data) ==
    [ d \in DOMAIN store \cup { day } |-> IF d = day THEN existing_data ELSE store[d] ]

\* the processing of the record raises inside the try block: a player whose
\* stats field is null (stats.get on None); every exception is caught by the
\* handler at the end of the function
LogRaises(match) ==
    LET all_players == Get(Get(match, "players", EmptyDict), "all_players", << >>)
    IN  \E i \in 1..Len(all_players) : NullStats(all_players[i])

\* the store after log_match_data(match, req) at date now: the entry is
\* appended to the file of the date unless that file holds an entry with the
\* same match_id; nothing is written when the processing raised
StoreAfterLog(store, match, req, now) ==
    IF LogRaises(match) THEN store
    ELSE LET existing_data == DayFile(store, now)
             log_entry     == LogEntry(match, req, now)
         IN  IF MatchExists(existing_data, log_entry.match_id) THEN store
             ELSE WriteDay(store, now, Append(existing_data, log_entry))

\* the value log_match_data returns: True when the match was newly logged,
\* False when it was already logged and False from the exception handler
LogReturn(store, match, now) ==
    /\ ~ LogRaises(match)
    /\ ~ MatchExists(DayFile(store, now), MatchId(match))

\* calls of the logging and fetching functions in one run
MaxLogCalls == 2

\* log_match_data called on the match record with the request (slash_pull_games)
LogMatchData ==
    /\ pc = "done"
    /\ Len(returned) < MaxLogCalls
    /\ log_store' = StoreAfterLog(log_store, match_data, requested, today)
    /\ returned' = Append(returned, [ fn    |-> "log_match_data",
                                      value |-> LogReturn(log_store, match_data, today) ])
    /\ UNCHANGED << match_data, player_puuid, total_rounds, pc, kills_by_round, heap,
                    rounds_checked, kast_rounds, debug_info, result, today, requested,
                    user_links, pulling >>

-----------------------------------------------------------------------------
(* create_comprehensive_match_embed: the statistics table of each team, the *)
(* details of the requested player, and the logging of the match.           *)

\* the values of one line of the table (the line shows kills/deaths/assists,
\* ACS, ADR, HS%, KAST, FK, FD, MK and +/-)
EmbedRow(match, player, rounds_played) ==
    IF NullStats(player) THEN AttributeError
    ELSE
    LET stats       == Get(player, "stats", EmptyDict)
        kills       == Get(stats, "kills", 0)
        deaths      == Get(stats, "deaths", 0)
        assists     == Get(stats, "assists", 0)
        damage      == Get(player, "damage_made", 0)
        headshots   == Get(stats, "headshots", 0)
        total_shots == headshots + Get(stats, "bodyshots", 0) + Get(stats, "legshots", 0)
        puuid       == Get(player, "puuid", "")
    IN  [ name         |-> Get(player, "name", "Unknown"),
          tag          |-> Get(player, "tag", "0000"),
          kills        |-> kills,
          deaths       |-> deaths,
          assists      |-> assists,
          acs          |-> EmbedAcs(Get(stats, "score", 0), rounds_played),
          adr          |-> IF damage > 0 /\ rounds_played > 0
                           THEN calculate_adr(damage, rounds_played) ELSE 0,
          headshot_pct |-> calculate_hs_percentage(headshots, total_shots),
          kda          |-> calculate_kda(kills, deaths, assists),
          kast         |-> calculate_kast(match, puuid, rounds_played),
          first_bloods |-> FirstBloods(Get(match, "kills", << >>), puuid),
          first_deaths |-> FirstDeaths(Get(match, "kills", << >>), puuid),
          multikills   |-> TotalMultikills(Get(match, "rounds", << >>), puuid),
          plus_minus   |-> kills - deaths ]

\* get_acs, the sort key of the players of a team
GetAcs(player, rounds_played) ==
    IF NullStats(player) THEN AttributeError
    ELSE EmbedAcs(Get(Get(player, "stats", EmptyDict), "score", 0), rounds_played)

\* insert p into the list sorted by ACS, highest first, behind its equals
InsertByAcs(s, p, rounds_played) ==
    LET n == Cardinality({ i \in 1..Len(s) :
                             GetAcs(s[i], rounds_played) >= GetAcs(p, rounds_played) })
    IN  SubSeq(s, 1, n) \o << p >> \o SubSeq(s, n + 1, Len(s))

\* players.sort(key=get_acs, reverse=True): stable; the keys of all players
\* are computed first, and a key that raises ends the sort
RECURSIVE SortByAcs(_, _)
SortByAcs(s, rounds_played) ==
    IF \E i \in 1..Len(s) : NullStats(s[i]) THEN AttributeError
    ELSE IF s = << >> THEN << >>
    ELSE InsertByAcs(SortByAcs(SubSeq(s, 1, Len(s) - 1), rounds_played), s[Len(s)],
                     rounds_played)

\* red_players and blue_players before the sort
EmbedTeamPlayers(match, team) ==
    SelectSeq(Get(Get(match, "players", EmptyDict), "all_players", << >>),
              LAMBDA p : Lower(Get(p, "team", "")) = team)

\* the sort of the team raises: one of its players has null stats
EmbedTeamRaises(match, team) ==
    \E i \in 1..Len(EmbedTeamPlayers(match, team)) :
        NullStats(EmbedTeamPlayers(match, team)[i])

\* the table of a team ("red" or "blue"): its players by ACS, highest first
EmbedTeam(match, team, rounds_played) ==
    IF EmbedTeamRaises(match, team) THEN AttributeError
    ELSE LET players == SortByAcs(EmbedTeamPlayers(match, team), rounds_played)
         IN  [ i \in 1..Len(players) |-> EmbedRow(match, players[i], rounds_played) ]

\* the multikills dict of the requested player: for each round the first stat
\* of the player decides the bucket
EmbedMultikills(round_data, puuid) ==
    [ b \in { "2k", "3k", "4k", "5k" } |->
        IF round_data = << >> \/ puuid = "" THEN 0
        ELSE Cardinality({ i \in 1..Len(round_data) :
                             LET found == FindPlayerStats(round_data[i], puuid)
                             IN  /\ found # << >>
                                 /\ MultikillBucket(Get(found[1], "kills", 0)) = b }) ]

\* requested_player: the first player with the requested name
\* (case-insensitive) and tag, as a list; empty if no player matches
RequestedPlayer(match, req) ==
    LET all_players == Get(Get(match, "players", EmptyDict), "all_players", << >>)
        hits == { i \in 1..Len(all_players) :
                    /\ Lower(Get(all_players[i], "name", "")) = Lower(req.username)
                    /\ Get(all_players[i], "tag", "") = req.tag }
    IN  IF hits = { } THEN << >>
        ELSE << all_players[CHOOSE i \in hits : \A j \in hits : i <= j] >>

\* the details block raises: the requested player has null stats
EmbedDetailsRaise(match, req) ==
    /\ RequestedPlayer(match, req) # << >>
    /\ NullStats(RequestedPlayer(match, req)[1])

\* the details of the requested player; none if no player matches
EmbedDetails(match, req, rounds_played) ==
    LET all_players == Get(Get(match, "players", EmptyDict), "all_players", << >>)
        hits == { i \in 1..Len(all_players) :
                    /\ Lower(Get(all_players[i], "name", "")) = Lower(req.username)
                    /\ Get(all_players[i], "tag", "") = req.tag }
    IN  IF hits = { } THEN << >>
        ELSE IF EmbedDetailsRaise(match, req) THEN AttributeError
        ELSE LET p     == all_players[CHOOSE i \in hits : \A j \in hits : i <= j]
                 stats == Get(p, "stats", EmptyDict)
                 puuid == Get(p, "puuid", "")
             IN  << [ kda          |-> calculate_kda(Get(stats, "kills", 0),
                                                     Get(stats, "deaths", 0),
                                                     Get(stats, "assists", 0)),
                      adr          |-> calculate_adr(Get(p, "damage_made", 0), rounds_played),
                      damage       |-> Get(p, "damage_made", 0),
                      first_bloods |-> FirstBloods(Get(match, "kills", << >>), puuid),
                      first_deaths |-> FirstDeaths(Get(match, "kills", << >>), puuid),
                      multikills   |-> EmbedMultikills(Get(match, "rounds", << >>), puuid),
                      rank         |-> Get(p, "currenttier_patched", "Unranked") ] >>

\* the record has players: without them the embed reports that no player
\* data is available and returns before the match is logged
HasPlayers(match) ==
    Get(Get(match, "players", EmptyDict), "all_players", << >>) # << >>

\* the embed when the sort of a team raised: the handler at the end of the
\* function adds the Error field to the overview; no table, no legend, no
\* details, and log_match_data was not reached
EmbedAfterSortError ==
    [ fields |-> << "Match Overview", "Error" >>,
      red |-> << >>, blue |-> << >>, details |-> << >> ]

\* the names of the fields of the embed whose tables were built, in order
EmbedFields(match, req) ==
    << "Match Overview" >>
    \o (IF EmbedTeamPlayers(match, "red") # << >> THEN << "Red Team" >> ELSE << >>)
    \o (IF EmbedTeamPlayers(match, "blue") # << >> THEN << "Blue Team" >> ELSE << >>)
    \o << "Legend" >>
    \o (IF RequestedPlayer(match, req) = << >> THEN << >>
        ELSE IF EmbedDetailsRaise(match, req) THEN << "Error" >>
        ELSE << "Details" >>)

\* 'if not match_data': the record is empty (or None)
NoMatchData(match) == DOMAIN match = { }

\* what the embed shows of the match: the names of its fields, the lines of
\* the two tables and the details of the requested player
create_comprehensive_match_embed(match, req) ==
    LET rounds_played == Get(Get(match, "metadata", EmptyDict), "rounds_played", 0)
    IN  IF NoMatchData(match)
        THEN [ fields |-> << "No match data found" >>,
               red |-> << >>, blue |-> << >>, details |-> << >> ]
        ELSE IF ~ HasPlayers(match)
        THEN [ fields |-> << "Match Overview", "No player data available" >>,
               red |-> << >>, blue |-> << >>, details |-> << >> ]
        ELSE IF EmbedTeamRaises(match, "red") \/ EmbedTeamRaises(match, "blue")
        THEN EmbedAfterSortError
        ELSE [ fields  |-> EmbedFields(match, req),
               red     |-> EmbedTeam(match, "red", rounds_played),
               blue    |-> EmbedTeam(match, "blue", rounds_played),
               details |-> IF EmbedDetailsRaise(match, req) THEN << >>
                           ELSE EmbedDetails(match, req, rounds_played) ]

\* the embed reaches its call of log_match_data
EmbedLogs(match) ==
    /\ ~ NoMatchData(match)
    /\ HasPlayers(match)
    /\ ~ EmbedTeamRaises(match, "red")
    /\ ~ EmbedTeamRaises(match, "blue")

\* create_comprehensive_match_embed called on the match record with the
\* request: the tables are built and the match is logged
CreateEmbed ==
    /\ pc = "done"
    /\ Len(returned) < MaxLogCalls
    /\ log_store' = IF EmbedLogs(match_data)
                    THEN StoreAfterLog(log_store, match_data, requested, today)
                    ELSE log_store
    /\ returned' = Append(returned,
          [ fn    |-> "create_comprehensive_match_embed",
            value |-> create_comprehensive_match_embed(match_data, requested) ])
    /\ UNCHANGED << match_data, player_puuid, total_rounds, pc, kills_by_round, heap,
                    rounds_checked, kast_rounds, debug_info, result, today, requested,
                    user_links, pulling >>

-----------------------------------------------------------------------------
(* Inputs of the statistics specifications: a match record as the match    *)
(* endpoint delivers it, with the players of the request among its players. *)

\* a player of a match
Player(name, puuid, team, kills, deaths, assists, score) ==
    [ name |-> name, tag |-> "0001", puuid |-> puuid, team |-> team,
      currenttier_patched |-> "Gold 1", character |-> "Sova", damage_made |-> 100 * kills,
      stats |-> [ kills |-> kills, deaths |-> deaths, assists |-> assists, score |-> score,
                  headshots |-> kills, bodyshots |-> 1, legshots |-> 0 ] ]

\* a match record
Match(id, rounds_played, all_players, rounds, kills) ==
    [ metadata |-> [ matchid |-> id, map |-> "Ascent", mode |-> "Competitive",
                     game_start_patched |-> "Monday", rounds_played |-> rounds_played ],
      teams    |-> [ red |-> [ rounds_won |-> rounds_played ], blue |-> [ rounds_won |-> 0 ] ],
      players  |-> [ all_players |-> all_players ],
      rounds   |-> rounds,
      kills    |-> kills ]

\* the state in which a report of the match is requested
Idle ==
    /\ player_puuid = "p1"
    /\ pc = "done"
    /\ kills_by_round = NoIndex
    /\ heap = NoLists
    /\ rounds_checked = 0
    /\ kast_rounds = 0
    /\ debug_info = << >>
    /\ result = 0
    /\ returned = << >>
    /\ log_store = NoLogs
    /\ today = FirstDay
    /\ requested = Request
    /\ user_links = NoLinks
    /\ pulling = NotPulling

\* the match is shown in an embed, which logs it, or logged directly
NextReport == CreateEmbed \/ LogMatchData

\* the processed players of all log entries, and the table lines and details
\* of all embeds
LoggedPlayers ==
    UNION { UNION { Range(log_store[d][i].players) : i \in 1..Len(log_store[d]) } :
              d \in DOMAIN log_store }

Embeds ==
    { returned[i].value : i \in { j \in 1..Len(returned) :
                                    returned[j].fn = "create_comprehensive_match_embed" } }

EmbedRows == UNION { Range(e.red) \cup Range(e.blue) : e \in Embeds }

EmbedDetailsShown == UNION { Range(e.details) : e \in Embeds }

-----------------------------------------------------------------------------
(* KDA: one player with every combination of kills, deaths and assists.     *)

MaxStat == 2

InitKda ==
    /\ \E k \in 0..MaxStat : \E d \in 0..MaxStat : \E a \in 0..MaxStat :
          match_data = Match("m1", 1, << Player("Ann", "p1", "Red", k, d, a, 0) >>,
                             << >>, << >>)
    /\ total_rounds = 1
    /\ Idle

SpecKda == InitKda /\ [][NextReport]_vars

\* the ratio of a player without deaths, as the statistics define it
KdaWithoutDeaths(kills, assists) == IF kills + assists > 0 THEN Inf ELSE Finite(0)

\* C11: every KDA value computed for a player with deaths = 0 is infinity
\* when kills + assists > 0 and 0.0 otherwise: the values of calculate_kda
\* shown in the embed and the kda stored in the log entries.
C11_KdaWithoutDeaths ==
    /\ \A r \in EmbedRows :
          r.deaths = 0 => r.kda = KdaWithoutDeaths(r.kills, r.assists)
    /\ \A p \in LoggedPlayers :
          p.stats.deaths = 0 => p.stats.kda = KdaWithoutDeaths(p.stats.kills, p.stats.assists)

-----------------------------------------------------------------------------
(* ACS: two players of one team with every pair of scores, and every number *)
(* of rounds played from 0 on.                                              *)

MaxScore == 5

MaxRoundsPlayed == 3

InitAcs ==
    /\ \E s1 \in 0..MaxScore : \E s2 \in 0..MaxScore : \E n \in 0..MaxRoundsPlayed :
          /\ match_data = Match("m1", n, << Player("Ann", "p1", "Red", 1, 1, 0, s1),
                                            Player("Bob", "p2", "Red", 1, 1, 0, s2) >>,
                                << >>, << >>)
          /\ total_rounds = n
    /\ Idle

SpecAcs == InitAcs /\ [][NextReport]_vars

\* the average combat score as the statistics define it: the quotient of
\* score and rounds played without its fraction, 0 without rounds played
AcsOf(score, rounds_played) ==
    IF rounds_played = 0 THEN 0
    ELSE CHOOSE q \in 0..score : q * rounds_played <= score /\ score < (q + 1) * rounds_played

\* the score of the player a table line is about
ScoreOfRow(r) ==
    LET all_players == match_data.players.all_players
    IN  (CHOOSE p \in Range(all_players) : p.name = r.name).stats.score

\* C12: every ACS value is the score divided by the rounds played, truncated
\* toward zero, and 0 without rounds played: the value stored in the log
\* entries, the value shown in the lines of the embed, and the value the lines
\* of a team are ordered by (highest first).
C12_AcsEverywhere ==
    LET rounds_played == match_data.metadata.rounds_played
    IN  /\ \A p \in LoggedPlayers : p.stats.acs = AcsOf(p.stats.score, rounds_played)
        /\ \A r \in EmbedRows : r.acs = AcsOf(ScoreOfRow(r), rounds_played)
        /\ \A e \in Embeds : \A i \in 1..Len(e.red) : \A j \in 1..Len(e.red) :
              i < j => AcsOf(ScoreOfRow(e.red[i]), rounds_played)
                         >= AcsOf(ScoreOfRow(e.red[j]), rounds_played)

-----------------------------------------------------------------------------
(* First bloods: two players of the match and a third participant, and any  *)
(* list of kill events in two rounds, in any order of their times.          *)

MaxFbKills == 2

FbEvents ==
    { [ round |-> r, killer_puuid |-> kv[1], victim_puuid |-> kv[2], kill_time_in_round |-> t ] :
        r \in { 1, 2 }, kv \in { << "p1", "p2" >>, << "p2", "p1" >>, << "p3", "p1" >> },
        t \in { 0, 1000 } }

InitFirstBlood ==
    /\ \E k \in 0..MaxFbKills : \E ks \in [ 1..k -> FbEvents ] :
          match_data = Match("m1", 2, << Player("Ann", "p1", "Red", 1, 1, 0, 200),
                                         Player("Bob", "p2", "Blue", 1, 1, 0, 100) >>,
                             << >>, ks)
    /\ total_rounds = 2
    /\ Idle

SpecFirstBlood == InitFirstBlood /\ [][NextReport]_vars

\* the rounds that have kill events
KillRounds == { match_data.kills[i].round : i \in 1..Len(match_data.kills) }

\* event i is the first kill of its round: no event of the round is earlier,
\* and none of the same time precedes it in the input
IsFirstKill(i) ==
    LET ks == match_data.kills
    IN  \A j \in 1..Len(ks) :
            (j # i /\ ks[j].round = ks[i].round)
            => \/ ks[j].kill_time_in_round > ks[i].kill_time_in_round
               \/ ks[j].kill_time_in_round = ks[i].kill_time_in_round /\ j > i

\* the rounds whose first kill has the player as killer, and as victim
FirstKillsBy(puuid) ==
    Cardinality({ i \in 1..Len(match_data.kills) :
                    IsFirstKill(i) /\ match_data.kills[i].killer_puuid = puuid })

FirstKillsOn(puuid) ==
    Cardinality({ i \in 1..Len(match_data.kills) :
                    IsFirstKill(i) /\ match_data.kills[i].victim_puuid = puuid })

\* the id of the player with a name
PuuidOf(name) ==
    (CHOOSE p \in Range(match_data.players.all_players) : p.name = name).puuid

\* the sum of a counter over the players of a log entry
RECURSIVE SumStat(_, _, _)
SumStat(players, field, i) ==
    IF i > Len(players) THEN 0 ELSE players[i].stats[field] + SumStat(players, field, i + 1)

LogEntries == UNION { Range(log_store[d]) : d \in DOMAIN log_store }

\* C13: each round with kill events has exactly one first kill, the event of
\* the smallest time, the earliest in input order among equals; a player's
\* first-blood counter is the number of rounds whose first kill they made and
\* their first-death counter the number of rounds whose first kill they
\* suffered, in the log and in the embed; over the players of a match each
\* counter sums to at most the number of rounds with kill events.
C13_FirstKillPerRound ==
    /\ \A r \in KillRounds :
          Cardinality({ i \in 1..Len(match_data.kills) :
                          match_data.kills[i].round = r /\ IsFirstKill(i) }) = 1
    /\ \A p \in LoggedPlayers :
          /\ p.stats.first_bloods = FirstKillsBy(PuuidOf(p.name))
          /\ p.stats.first_deaths = FirstKillsOn(PuuidOf(p.name))
    /\ \A r \in EmbedRows \cup EmbedDetailsShown :
          \E name \in { "Ann", "Bob" } :
             /\ "name" \in DOMAIN r => r.name = name
             /\ "name" \notin DOMAIN r => name = requested.username
             /\ r.first_bloods = FirstKillsBy(PuuidOf(name))
             /\ r.first_deaths = FirstKillsOn(PuuidOf(name))
    /\ \A e \in LogEntries :
          /\ SumStat(e.players, "first_bloods", 1) <= Cardinality(KillRounds)
          /\ SumStat(e.players, "first_deaths", 1) <= Cardinality(KillRounds)

\* the match was logged and shown, with a round whose later listed event is
\* its first kill, made by the requested player
C13_Witness ==
    /\ Len(match_data.kills) = MaxFbKills
    /\ \E i \in 2..Len(match_data.kills) :
          /\ IsFirstKill(i)
          /\ match_data.kills[i].killer_puuid = "p1"
          /\ match_data.kills[i - 1].round = match_data.kills[i].round
          /\ match_data.kills[i - 1].killer_puuid = "p2"
    /\ \E p \in LoggedPlayers : p.name = "Ann" /\ p.stats.first_bloods = 1
    /\ \E p \in LoggedPlayers : p.name = "Bob" /\ p.stats.first_deaths = 1
    /\ \E r \in EmbedRows : r.name = "Ann" /\ r.first_bloods = 1

-----------------------------------------------------------------------------
(* Multi-kills: the requested player with any number of kills in each round *)
(* of the match, from none to more than five.                               *)

MaxMkRounds == 2

MaxRoundKills == 6

InitMultikills ==
    /\ \E n \in 0..MaxMkRounds : \E ks \in [ 1..n -> 0..MaxRoundKills ] :
          match_data = Match("m1", n, << Player("Ann", "p1", "Red", 1, 1, 0, 200) >>,
                             [ i \in 1..n |->
                                 [ round_num |-> i,
                                   player_stats |-> << [ player_puuid |-> "p2", kills |-> 3 ],
                                                       [ player_puuid |-> "p1", kills |-> ks[i] ] >> ] ],
                             << >>)
          /\ total_rounds = n
    /\ Idle

NextMultikills == MultikillsCall \/ CreateEmbed

SpecMultikills == InitMultikills /\ [][NextMultikills]_vars

\* the kills of the requested player in round i
KillsOfRound(i) ==
    (CHOOSE s \in Range(match_data.rounds[i].player_stats) : s.player_puuid = "p1").kills

\* the rounds in which the requested player has from lo to hi kills
RoundsWithKills(lo, hi) ==
    Cardinality({ i \in 1..Len(match_data.rounds) : lo <= KillsOfRound(i) /\ KillsOfRound(i) <= hi })

\* the multikill dicts computed so far: the values of count_multikills and
\* the dicts of the details of the embeds
MultikillDicts ==
    { returned[i].value : i \in { j \in 1..Len(returned) : returned[j].fn = "count_multikills" } }
    \cup { x.multikills : x \in EmbedDetailsShown }

\* C14: each round is counted in at most one bucket, by the exact number of
\* kills of the player in it: 2 in 2k, 3 in 3k, 4 in 4k, 5 or more in 5k, fewer
\* than 2 in none; a round with 5 kills adds to 5k and not to 3k or 4k.
C14_ExactBuckets ==
    \A mk \in MultikillDicts :
        /\ mk["2k"] = RoundsWithKills(2, 2)
        /\ mk["3k"] = RoundsWithKills(3, 3)
        /\ mk["4k"] = RoundsWithKills(4, 4)
        /\ mk["5k"] = RoundsWithKills(5, MaxRoundKills)
        /\ mk["2k"] + mk["3k"] + mk["4k"] + mk["5k"] <= Len(match_data.rounds)

\* both computations have counted a match with a round of exactly 5 kills and
\* a round of more than 5 kills: two rounds in 5k and none in 3k or 4k
C14_Witness ==
    /\ \E i \in 1..Len(match_data.rounds) : KillsOfRound(i) = 5
    /\ \E i \in 1..Len(match_data.rounds) : KillsOfRound(i) > 5
    /\ \E i \in 1..Len(returned) : returned[i].fn = "count_multikills"
    /\ EmbedDetailsShown # { }
    /\ \A mk \in MultikillDicts : mk["5k"] = 2 /\ mk["3k"] = 0 /\ mk["4k"] = 0

-----------------------------------------------------------------------------
(* Loadouts: a match of up to MaxLoadoutRounds rounds with full teams, the  *)
(* round at position i numbered i in one of the three number fields, or not *)
(* numbered at all; every second round may be a save round.                 *)

MaxLoadoutRounds == 14

NumberFields == { "round_num", "round", "round_number", "none" }

\* the round record at position i
LoadoutRoundRec(field, i, variant, winner) ==
    LET base == [ winning_team |-> winner, player_stats |-> AnalyticsCase(variant).stats ]
    IN  CASE field = "round_num"    -> [ round_num |-> i ] @@ base
          [] field = "round"        -> [ round |-> i ] @@ base
          [] field = "round_number" -> [ round_number |-> i ] @@ base
          [] OTHER                  -> base

LoadoutMatch(n, field, saves, winner) ==
    [ rounds |-> [ i \in 1..n |->
                     LoadoutRoundRec(field, i,
                                     IF saves /\ i % 2 = 0 THEN "save" ELSE "buy", winner) ],
      kills  |-> << >> ]

InitLoadouts ==
    /\ \E n \in 1..MaxLoadoutRounds : \E field \in NumberFields :
       \E saves \in BOOLEAN : \E winner \in { "Red", "Blue" } :
          /\ match_data = LoadoutMatch(n, field, saves, winner)
          /\ total_rounds = n
    /\ Idle

NextLoadouts == LoadoutsCall

SpecLoadouts == InitLoadouts /\ [][NextLoadouts]_vars

\* the results of analyze_effective_loadouts so far
LoadoutResults ==
    { returned[i].value : i \in { j \in 1..Len(returned) :
                                    returned[j].fn = "analyze_effective_loadouts" } }

\* the match without its 1st, 2nd, 13th and 14th round
WithoutPistolRounds(match) ==
    LET keep == SelectSeq([ i \in 1..Len(match.rounds) |-> i ], LAMBDA i : i \notin PistolRounds)
    IN  [ match EXCEPT !.rounds = [ j \in 1..Len(keep) |-> match.rounds[keep[j]] ] ]

\* C15: the 1st, 2nd, 13th and 14th round of a match never count toward a
\* loadout signature, whichever field carries the round number and also
\* without any: the result is that of the match without these rounds.
C15_PistolRoundsExcluded ==
    \A v \in LoadoutResults :
        v = analyze_effective_loadouts(<< WithoutPistolRounds(match_data) >>)

\* C16: every signature of a result was observed in at least 5 rounds, and a
\* result holds at most 10 signatures, also when no signature reaches 5 rounds.
C16_MeaningfulTopTen ==
    \A v \in LoadoutResults :
        /\ Len(v) <= TopLoadouts
        /\ \A i \in 1..Len(v) : v[i].total_rounds >= MinLoadoutRounds

-----------------------------------------------------------------------------
(* Round numbers *)

\* the number fields a round record carries, with their values
NumbersCarried(round_info) ==
    { round_info[f] : f \in DOMAIN round_info \cap { "round_num", "round", "round_number" } }

\* C17: calculate_kast, analyze_first_blood_win_rate and
\* analyze_effective_loadouts assign the same number to the same round
\* record: the number the record carries in round_num, round or round_number,
\* whichever is present.
C17_SameRoundNumber ==
    \A j \in 1..Len(debug_info) :
        LET round_info == EntryRound(j)
        IN  /\ debug_info[j].round = FbRoundNum(round_info)
            /\ debug_info[j].round = LoadoutRoundNum(round_info)
            /\ \A n \in NumbersCarried(round_info) : debug_info[j].round = n

-----------------------------------------------------------------------------
(* The link store: /link and /unlink.  A tag is a string; TagChars gives   *)
(* the characters of the tags that occur.  The name#tag string of an       *)
(* account is the pair of name and tag (no name or tag holds a '#').       *)

TagChars(tag) ==
    CASE tag = "0001" -> << "0", "0", "0", "1" >>
      [] tag = "0002" -> << "0", "0", "0", "2" >>
      [] tag = "00 1" -> << "0", "0", " ", "1" >>
      [] tag = "" -> << >>
      [] tag = "12345678901" -> << "1", "2", "3", "4", "5", "6", "7", "8", "9", "0", "1" >>

Alnum == { "0", "1", "2", "3", "4", "5", "6", "7", "8", "9" }

\* the longest tag /link accepts
MaxTagLen == 10

\* not (not tag.isalnum() or len(tag) > 10); isalnum is false of the empty string
ValidTag(tag) ==
    /\ TagChars(tag) # << >>
    /\ \A i \in 1..Len(TagChars(tag)) : TagChars(tag)[i] \in Alnum
    /\ Len(TagChars(tag)) <= MaxTagLen

\* f"{username}#{tag}"
FullName(username, tag) == << username, tag >>

\* the entry /link writes for a user; guild is None outside a guild
LinkEntry(user, username, tag, guild, now) ==
    [ valorant_username |-> username,
      valorant_tag      |-> tag,
      valorant_full     |-> FullName(username, tag),
      discord_username  |-> user,
      linked_at         |-> now,
      guild_id          |-> guild ]

\* user_links[discord_id] = {...}
LinksAfterLink(links, user, entry) ==
    [ u \in DOMAIN links \cup { user } |-> IF u = user THEN entry ELSE links[u] ]

\* the store, were every link removed by an /unlink
LinksAfterUnlinkAll(links, user) == NoLinks

\* del user_links[discord_id]
LinksAfterUnlink(links, user) ==
    [ u \in DOMAIN links \ { user } |-> links[u] ]

Users == { "u1", "u2" }

Guilds == { "g1", "g2" }

Usernames == { "Ann", "Bob" }

Tags == { "0001", "00 1", "", "12345678901" }

\* the commands a run may hold
MaxCommands == 3

\* /link username tag, by a user in a guild
LinkAccount ==
    /\ pc = "done"
    /\ Len(returned) < MaxCommands
    /\ \E user \in Users, username \in Usernames, tag \in Tags, guild \in Guilds :
          IF ~ ValidTag(tag)
          THEN /\ returned' = Append(returned, [ fn |-> "slash_link_account", user |-> user,
                                                 tag |-> tag,
                                                 value |-> "Invalid Tag Format" ])
               /\ UNCHANGED user_links
          ELSE /\ user_links' = LinksAfterLink(user_links, user,
                                               LinkEntry(user, username, tag, guild, today))
               /\ returned' = Append(returned, [ fn |-> "slash_link_account", user |-> user,
                                                 tag |-> tag,
                                                 value |-> "Account Linked Successfully" ])
    /\ UNCHANGED << match_data, player_puuid, total_rounds, pc, kills_by_round, heap,
                    rounds_checked, kast_rounds, debug_info, result,
                    log_store, today, requested, pulling >>

\* /unlink by a user
UnlinkAccount ==
    /\ pc = "done"
    /\ Len(returned) < MaxCommands
    /\ \E user \in Users :
          IF user \notin DOMAIN user_links
          THEN /\ returned' = Append(returned, [ fn |-> "slash_unlink_account", user |-> user,
                                                 value |-> "You don't have any linked accounts." ])
               /\ UNCHANGED user_links
          ELSE /\ user_links' = LinksAfterUnlink(user_links, user)
               /\ returned' = Append(returned, [ fn |-> "slash_unlink_account", user |-> user,
                                                 value |-> "Account Unlinked" ])
    /\ UNCHANGED << match_data, player_puuid, total_rounds, pc, kills_by_round, heap,
                    rounds_checked, kast_rounds, debug_info, result,
                    log_store, today, requested, pulling >>

-----------------------------------------------------------------------------
(* slash_server_stats: the log entries of the last days are collected, the  *)
(* players are counted and ranked, and the first-blood and loadout          *)
(* analytics are run over the entries.                                      *)

\* the default of the days parameter
DefaultDays == 30

\* the largest value of the days parameter that is taken as given
MaxDays == 90

\* all_matches: the entries of the files of the dates now, now - 1, ..., in
\* this order, days dates in all
RECURSIVE CollectLogs(_, _, _)
CollectLogs(store, now, days) ==
    IF days = 0 THEN << >>
    ELSE DayFile(store, now) \o CollectLogs(store, now - 1, days - 1)

\* linked_users: the accounts linked by a user in the guild of the command
LinkedUsers(links, guild) ==
    { links[u].valorant_full :
        u \in { v \in DOMAIN links : guild # None /\ Get(links[v], "guild_id", None) = guild } }

\* f"{player_name}#{player_tag}" of a logged player
PlayerFull(player) == FullName(Get(player, "name", "Unknown"), Get(player, "tag", "0000"))

\* not server_only or player_full in linked_users
Tracked(player, server_only, linked_users) ==
    ~ server_only \/ PlayerFull(player) \in linked_users

\* the players of all matches, in order
RECURSIVE MatchPlayers(_, _)
MatchPlayers(all_matches, i) ==
    IF i > Len(all_matches) THEN << >>
    ELSE Get(all_matches[i], "players", << >>) \o MatchPlayers(all_matches, i + 1)

\* all_players
AllPlayers(all_matches, server_only, linked_users) ==
    SelectSeq(MatchPlayers(all_matches, 1),
              LAMBDA p : Tracked(p, server_only, linked_users))

\* sum(p.get('stats', {}).get(field, 0) for p in players)
RECURSIVE SumOfStat(_, _, _)
SumOfStat(players, field, i) ==
    IF i > Len(players) THEN 0
    ELSE Get(Get(players[i], "stats", EmptyDict), field, 0) + SumOfStat(players, field, i + 1)

\* the Overview field
Overview(all_matches, all_players) ==
    [ total_matches      |-> Len(all_matches),
      unique_players     |-> Cardinality({ PlayerFull(all_players[i]) : i \in 1..Len(all_players) }),
      total_kills        |-> SumOfStat(all_players, "kills", 1),
      total_deaths       |-> SumOfStat(all_players, "deaths", 1),
      total_damage       |-> SumOfStat(all_players, "damage", 1),
      total_first_bloods |-> SumOfStat(all_players, "first_bloods", 1),
      total_multikills   |-> SumOfStat(all_players, "multikills", 1) ]

\* player.get('agent') or player.get('character', 'Unknown'), 'Unknown' if empty
AgentOf(player) ==
    LET agent == IF Get(player, "agent", None) \notin { None, "" } THEN player.agent
                 ELSE Get(player, "character", "Unknown")
    IN  IF agent \in { None, "" } THEN "Unknown" ELSE agent

\* the largest ACS taken as valid
MaxAcs == 1000

\* the ACS recalculated from the raw score; a value above 1000 counts as 0
CurrentAcs(total_score, rounds_played) ==
    IF rounds_played > 0 /\ total_score > 0
    THEN IF TruncDiv(total_score, rounds_played) > MaxAcs THEN 0
         ELSE TruncDiv(total_score, rounds_played)
    ELSE 0

\* player_stats[player_id] and player_best_games[player_id] of a player not seen before
NewPlayerStats(player_id) ==
    [ id |-> player_id, matches |-> 0, kills |-> 0, deaths |-> 0, assists |-> 0,
      acs_total |-> 0, damage |-> 0, first_bloods |-> 0, multikills |-> 0, kast_total |-> 0,
      kast_values |-> << >>, agents |-> << >>,
      best_game |-> [ acs |-> 0, kills |-> 0, agent |-> "Unknown", map |-> "Unknown",
                      kda |-> Finite(0) ] ]

\* stats['agents'], a dict in insertion order as the list of its items, after
\* one game with the agent
AgentsAfterGame(agents, agent, current_acs, kills, deaths) ==
    LET with == IF \E i \in 1..Len(agents) : agents[i].agent = agent THEN agents
                ELSE Append(agents, [ agent |-> agent, matches |-> 0, acs_total |-> 0,
                                      kills |-> 0, deaths |-> 0 ])
    IN  [ i \in 1..Len(with) |->
            IF with[i].agent = agent
            THEN [ with[i] EXCEPT !.matches = @ + 1, !.acs_total = @ + current_acs,
                                  !.kills = @ + kills, !.deaths = @ + deaths ]
            ELSE with[i] ]

\* the entry of a player after one game of the player
StatsAfterGame(stats, player, match_info, rounds_played) ==
    LET data        == Get(player, "stats", EmptyDict)
        kills       == Get(data, "kills", 0)
        deaths      == Get(data, "deaths", 0)
        assists     == Get(data, "assists", 0)
        current_acs == CurrentAcs(Get(data, "score", 0), rounds_played)
        agent       == AgentOf(player)
    IN  [ id           |-> stats.id,
          matches      |-> stats.matches + 1,
          kills        |-> stats.kills + kills,
          deaths       |-> stats.deaths + deaths,
          assists      |-> stats.assists + assists,
          acs_total    |-> stats.acs_total + current_acs,
          damage       |-> stats.damage + Get(data, "damage", 0),
          first_bloods |-> stats.first_bloods + Get(data, "first_bloods", 0),
          multikills   |-> stats.multikills + Get(data, "multikills", 0),
          kast_total   |-> stats.kast_total + Get(data, "kast", 0),
          kast_values  |-> Append(stats.kast_values, Get(data, "kast", 0)),
          agents       |-> AgentsAfterGame(stats.agents, agent, current_acs, kills, deaths),
          best_game    |-> IF current_acs > stats.best_game.acs
                           THEN [ acs |-> current_acs, kills |-> kills, deaths |-> deaths,
                                  assists |-> assists, agent |-> agent,
                                  map |-> Get(match_info, "map", "Unknown"),
                                  kda |-> IF deaths > 0
                                          THEN Finite(RoundScaled(kills + assists, deaths, 100))
                                          ELSE Inf ]
                           ELSE stats.best_game ]

\* player_stats, a dict in insertion order as the list of its entries, after
\* one player of a match: the loop reads every player of the match
PlayerStatsAfterPlayer(player_stats, player, match_info, rounds_played) ==
    LET player_id == PlayerFull(player)
        with == IF \E i \in 1..Len(player_stats) : player_stats[i].id = player_id
                THEN player_stats
                ELSE Append(player_stats, NewPlayerStats(player_id))
    IN  [ i \in 1..Len(with) |->
            IF with[i].id = player_id
            THEN StatsAfterGame(with[i], player, match_info, rounds_played)
            ELSE with[i] ]

RECURSIVE PlayerStatsAfterPlayers(_, _, _, _, _)
PlayerStatsAfterPlayers(player_stats, match_players, match_info, rounds_played, i) ==
    IF i > Len(match_players) THEN player_stats
    ELSE PlayerStatsAfterPlayers(
             PlayerStatsAfterPlayer(player_stats, match_players[i], match_info, rounds_played),
             match_players, match_info, rounds_played, i + 1)

\* player_stats after the matches from the i-th on; a match without rounds is skipped
RECURSIVE PlayerStatsOf(_, _, _)
PlayerStatsOf(player_stats, all_matches, i) ==
    IF i > Len(all_matches) THEN player_stats
    ELSE LET match_info    == Get(all_matches[i], "match_info", EmptyDict)
             rounds_played == Get(match_info, "rounds_played", 0)
             after == IF rounds_played = 0 THEN player_stats
                      ELSE PlayerStatsAfterPlayers(player_stats,
                                                   Get(all_matches[i], "players", << >>),
                                                   match_info, rounds_played, 1)
         IN  IF after = << >> THEN PlayerStatsOf(<< >>, all_matches, i + 1)
             ELSE PlayerStatsOf(after, all_matches, i + 1)

\* stats['kast_total'], a float: 0 and then one += for every game, the
\* percentages being the doubles nearest to their tenths
RECURSIVE KastTotalFloat(_, _)
KastTotalFloat(values, n) ==
    IF n = 0 THEN FDiv(0, 1)
    ELSE FAdd(KastTotalFloat(values, n - 1), FDiv(values[n], 10))

\* avg_acs and avg_kast in tenths, avg_kd in hundredths
AvgAcs(stats) == RoundScaled(stats.acs_total, stats.matches, 10)

AvgKd(stats) == IF stats.deaths > 0 THEN RoundScaled(stats.kills, stats.deaths, 100) ELSE 0

\* round(kast_total / matches, 1): kast_total is the sum in tenths, and the
\* float sum decides at a decimal tie
AvgKast(stats) ==
    LET q == stats.kast_total \div stats.matches
        r == stats.kast_total % stats.matches
    IN  IF 2 * r = stats.matches
        THEN PyRoundAtTie(FDivInt(KastTotalFloat(stats.kast_values, Len(stats.kast_values)),
                                  stats.matches), q, 10)
        ELSE IF 2 * r > stats.matches THEN q + 1 ELSE q

\* the matches a player needs for the leaderboards, the games with an agent
\* for the best agent, and the length of every list shown
MinPlayerMatches == 3

MinAgentMatches == 2

TopShown == 5

InsertByKey(s, e) ==
    LET n == Cardinality({ i \in 1..Len(s) : s[i].key >= e.key })
    IN  SubSeq(s, 1, n) \o << e >> \o SubSeq(s, n + 1, Len(s))

\* sorted(..., key=..., reverse=True)[:5] of a list of keyed items: descending,
\* equal keys in input order
RECURSIVE SortByKey(_)
SortByKey(s) ==
    IF s = << >> THEN << >>
    ELSE InsertByKey(SortByKey(SubSeq(s, 1, Len(s) - 1)), s[Len(s)])

Top(s) ==
    LET sorted == SortByKey(s)
    IN  [ i \in 1..(IF Len(sorted) < TopShown THEN Len(sorted) ELSE TopShown) |-> sorted[i].item ]

\* eligible_players
EligiblePlayers(player_stats) ==
    SelectSeq(player_stats, LAMBDA s : s.matches >= MinPlayerMatches)

\* the best agent of a player: the first agent with the largest average ACS
\* above 0 among those played twice or more; << >> if there is none
RECURSIVE BestAgent(_, _, _)
BestAgent(agents, best, i) ==
    IF i > Len(agents) THEN best
    ELSE LET a == agents[i]
             better == /\ a.matches >= MinAgentMatches
                       /\ IF best = << >> THEN a.acs_total > 0
                          ELSE a.acs_total * best[1].matches > best[1].acs_total * a.matches
         IN  BestAgent(agents, IF better THEN << a >> ELSE best, i + 1)

\* best_agent_players before the sort
BestAgentPlayers(player_stats) ==
    LET with == SelectSeq(player_stats,
                          LAMBDA s : /\ s.matches >= MinPlayerMatches
                                     /\ BestAgent(s.agents, << >>, 1) # << >>
                                     /\ RoundScaled(BestAgent(s.agents, << >>, 1)[1].acs_total,
                                                    BestAgent(s.agents, << >>, 1)[1].matches, 10) > 0)
    IN  [ i \in 1..Len(with) |->
            LET a == BestAgent(with[i].agents, << >>, 1)[1]
            IN  [ key  |-> RoundScaled(a.acs_total, a.matches, 10),
                  item |-> << with[i].id, a.agent, RoundScaled(a.acs_total, a.matches, 10),
                              a.matches >> ] ]

\* best_games before the sort
BestGames(player_stats) ==
    LET with == SelectSeq(player_stats, LAMBDA s : s.best_game.acs > 0)
    IN  [ i \in 1..Len(with) |->
            LET g == with[i].best_game
            IN  [ key  |-> g.acs,
                  item |-> << with[i].id, g.acs, g.kills, g.deaths, g.assists, g.agent, g.kda >> ] ]

\* the embed of /serverstats: the overview, the player leaderboards and the
\* analytics over the logged matches
ServerReport(all_matches, all_players) ==
    LET player_stats == PlayerStatsOf(<< >>, all_matches, 1)
        eligible     == EligiblePlayers(player_stats)
    IN  [ total_matches      |-> Len(all_matches),
          overview           |-> Overview(all_matches, all_players),
          top_acs_players    |-> Top([ i \in 1..Len(eligible) |->
                                       [ key |-> AvgAcs(eligible[i]),
                                         item |-> << eligible[i].id, AvgAcs(eligible[i]) >> ] ]),
          top_kd_players     |-> Top([ i \in 1..Len(eligible) |->
                                       [ key |-> AvgKd(eligible[i]),
                                         item |-> << eligible[i].id, AvgKd(eligible[i]) >> ] ]),
          top_kast_players   |-> Top([ i \in 1..Len(eligible) |->
                                       [ key |-> AvgKast(eligible[i]),
                                         item |-> << eligible[i].id, AvgKast(eligible[i]) >> ] ]),
          top_damage_players |-> Top([ i \in 1..Len(eligible) |->
                                       [ key |-> eligible[i].damage,
                                         item |-> << eligible[i].id, eligible[i].damage >> ] ]),
          top_agent_players  |-> Top(BestAgentPlayers(player_stats)),
          top_games          |-> Top(BestGames(player_stats)),
          first_blood        |-> analyze_first_blood_win_rate(all_matches),
          loadouts           |-> analyze_effective_loadouts(all_matches) ]

\* 'if days < 1 or days > 90: days = 30'
DaysAnalysed(days) == IF days < 1 \/ days > MaxDays THEN DefaultDays ELSE days

\* what the command shows: the report, or nothing but a notice when no member
\* of the guild is linked, no match is logged in the last days, or no logged
\* player is a linked member
slash_server_stats(store, links, now, days, server_only, guild) ==
    LET linked_users == IF server_only THEN LinkedUsers(links, guild) ELSE { }
        all_matches  == CollectLogs(store, now, DaysAnalysed(days))
        all_players  == AllPlayers(all_matches, server_only, linked_users)
    IN  IF server_only /\ linked_users = { } THEN << >>
        ELSE IF all_matches = << >> THEN << >>
        ELSE IF server_only /\ all_players = << >> THEN << >>
        ELSE << ServerReport(all_matches, all_players) >>

\* the values of the days parameter of a command: the default, one day, and
\* a value on either side of the accepted range
CommandDays == { 0, 1, DefaultDays, MaxDays + 1 }

\* /serverstats server_only:False, in a direct message: the statistics over
\* the logged matches, for all players
ServerStats ==
    /\ pc = "done"
    /\ Len(returned) < MaxLogCalls
    /\ \E days \in CommandDays :
          returned' = Append(returned,
             [ fn    |-> "slash_server_stats", days |-> days,
               value |-> slash_server_stats(log_store, user_links, today, days,
                                            FALSE, None) ])
    /\ UNCHANGED << match_data, player_puuid, total_rounds, pc, kills_by_round, heap,
                    rounds_checked, kast_rounds, debug_info, result, logvars >>

-----------------------------------------------------------------------------
(* The log store: matches arrive one after the other and are logged or      *)
(* shown, on one day or another.                                            *)

\* the last UTC date of a run
LastDay == 2

\* the clock passes midnight UTC
NextDay ==
    /\ today < LastDay
    /\ today' = today + 1
    /\ UNCHANGED << match_data, player_puuid, total_rounds, pc, kills_by_round, heap,
                    rounds_checked, kast_rounds, debug_info, result, returned,
                    log_store, requested, user_links, pulling >>

\* two matches of the requested player: the first with a round that Red wins
\* after the first kill, the second without round data
StoreMatches ==
    { Match("m1", 1, << Player("Ann", "p1", "Red", 1, 0, 0, 200),
                        Player("Bob", "p2", "Blue", 0, 1, 0, 100) >>,
            << [ round_num |-> 1, winning_team |-> "Red",
                 player_stats |-> << [ player_puuid |-> "p1", kills |-> 1, assists |-> 0 ],
                                     [ player_puuid |-> "p2", kills |-> 0, assists |-> 0 ] >> ] >>,
            << [ round |-> 1, killer_puuid |-> "p1", victim_puuid |-> "p2",
                 killer_team |-> "Red", kill_time_in_round |-> 3000 ] >>),
      Match("m2", 0, << Player("Ann", "p1", "Blue", 0, 0, 0, 0) >>, << >>, << >>) }

\* the details of another match were fetched
NextMatch ==
    /\ pc = "done"
    /\ match_data' \in StoreMatches \ { match_data }
    /\ UNCHANGED << player_puuid, total_rounds, pc, kills_by_round, heap, rounds_checked,
                    kast_rounds, debug_info, result, returned, logvars >>

InitStore ==
    /\ match_data \in StoreMatches
    /\ total_rounds = 1
    /\ Idle

NextStore == LogMatchData \/ CreateEmbed \/ ServerStats \/ NextDay \/ NextMatch

SpecStore == InitStore /\ [][NextStore]_vars

\* the entries of the store with a match_id
EntriesOf(id) ==
    { de \in UNION { { << d, i >> : i \in 1..Len(log_store[d]) } : d \in DOMAIN log_store } :
        log_store[de[1]][de[2]].match_id = id }

\* the calls of log_match_data that reported a newly logged match
NewlyLogged ==
    Cardinality({ i \in 1..Len(returned) :
                    returned[i].fn = "log_match_data" /\ returned[i].value })

\* the embeds built so far, each of which logged its match if it was new
EmbedsBuilt ==
    Cardinality({ i \in 1..Len(returned) :
                    returned[i].fn = "create_comprehensive_match_embed" })

\* C18: after any sequence of log_match_data calls, on one or several UTC
\* days, the store holds at most one entry per match_id, and no entry of a
\* newly logged match is lost: matches of different ids are both retained.
C18_OneEntryPerMatch ==
    /\ \A id \in { "m1", "m2" } : Cardinality(EntriesOf(id)) <= 1
    /\ Cardinality(LogEntries) >= NewlyLogged
    /\ Cardinality(LogEntries) <= NewlyLogged + EmbedsBuilt

\* C19: every entry of the store holds the raw rounds and kills arrays of its
\* match next to the per-player stats, so the first-blood analysis over the
\* logged entries sees the rounds of the logged matches.
C19_RawArraysLogged ==
    /\ \A e \in LogEntries :
          \E m \in StoreMatches :
             /\ MatchId(m) = e.match_id
             /\ "players" \in DOMAIN e
             /\ "rounds" \in DOMAIN e /\ e.rounds = m.rounds
             /\ "kills" \in DOMAIN e /\ e.kills = m.kills
    /\ \A i \in 1..Len(returned) :
          (returned[i].fn = "slash_server_stats" /\ returned[i].value # << >>)
          => \A e \in LogEntries :
                \A m \in StoreMatches :
                   MatchId(m) = e.match_id
                   => returned[i].value[1].first_blood.total_rounds
                        >= analyze_first_blood_win_rate(<< m >>).total_rounds

-----------------------------------------------------------------------------
(* fetch_valorant_matches and fetch_match_details.  The outcome of          *)
(* requests.get is the input: an HTTP response with a status code and a     *)
(* body, or an exception of the requests library.                           *)

\* the bodies of a response: a JSON object with a non-empty data member, one
\* with an empty data member, one without data member, and text that is not JSON
Bodies == { "data", "empty", "nodata", "malformed" }

HttpResponse(status, body) == [ error |-> "none", status |-> status, body |-> body ]

\* requests.exceptions.Timeout and another RequestException (ConnectionError)
FailedRequest(error) == [ error |-> error, status |-> 0, body |-> "nodata" ]

Responses ==
    { HttpResponse(200, b) : b \in Bodies }
    \cup { HttpResponse(s, "nodata") : s \in { 404, 429, 400, 403, 500 } }
    \cup { FailedRequest(e) : e \in { "timeout", "network" } }

\* what a fetch function hands to its caller: an exception that leaves the
\* function, None, a list or a dict
Raised        == [ raised |-> TRUE,  none |-> FALSE, list |-> << >>, dict |-> EmptyDict ]
ReturnedNone  == [ raised |-> FALSE, none |-> TRUE,  list |-> << >>, dict |-> EmptyDict ]
ReturnedList(l) == [ raised |-> FALSE, none |-> FALSE, list |-> l, dict |-> EmptyDict ]
ReturnedDict(d) == [ raised |-> FALSE, none |-> FALSE, list |-> << >>, dict |-> d ]

\* the data member of a successful matches response, and of a match response
MatchList == << [ metadata |-> [ matchid |-> "m1" ] ], [ metadata |-> [ matchid |-> "m2" ] ] >>

MatchDetails == Match("m1", 1, << Player("Ann", "p1", "Red", 1, 0, 0, 200) >>, << >>, << >>)

\* response.json() on a body that is not JSON raises an exception that is a
\* RequestException in some versions of the requests library, and then is
\* caught by the handler of the function, and a plain ValueError in others,
\* and then leaves the function: both outcomes are possible
JsonOutcomes(on_caught) == { on_caught, Raised }

\* the possible outcomes of fetch_valorant_matches for a response
fetch_valorant_matches(response) ==
    IF response.error # "none" THEN { ReturnedList(<< >>) }
    ELSE IF response.status = 200
         THEN CASE response.body = "data"      -> { ReturnedList(MatchList) }
                [] response.body = "malformed" -> JsonOutcomes(ReturnedList(<< >>))
                [] OTHER                       -> { ReturnedList(<< >>) }
    ELSE IF response.status = 404 THEN { ReturnedNone }
    ELSE { ReturnedList(<< >>) }

\* the possible outcomes of fetch_match_details for a response
fetch_match_details(response) ==
    IF response.error # "none" THEN { ReturnedDict(EmptyDict) }
    ELSE IF response.status = 200
         THEN CASE response.body = "data"      -> { ReturnedDict(MatchDetails) }
                [] response.body = "malformed" -> JsonOutcomes(ReturnedDict(EmptyDict))
                [] OTHER                       -> { ReturnedDict(EmptyDict) }
    ELSE { ReturnedDict(EmptyDict) }

\* a call of fetch_valorant_matches that meets some response
FetchMatches ==
    /\ pc = "done"
    /\ Len(returned) < MaxLogCalls
    /\ \E response \in Responses : \E v \in fetch_valorant_matches(response) :
          returned' = Append(returned, [ fn |-> "fetch_valorant_matches", value |-> v,
                                         response |-> response ])
    /\ UNCHANGED << match_data, player_puuid, total_rounds, pc, kills_by_round, heap,
                    rounds_checked, kast_rounds, debug_info, result, logvars >>

\* a call of fetch_match_details that meets some response
FetchMatchDetails ==
    /\ pc = "done"
    /\ Len(returned) < MaxLogCalls
    /\ \E response \in Responses : \E v \in fetch_match_details(response) :
          returned' = Append(returned, [ fn |-> "fetch_match_details", value |-> v,
                                         response |-> response ])
    /\ UNCHANGED << match_data, player_puuid, total_rounds, pc, kills_by_round, heap,
                    rounds_checked, kast_rounds, debug_info, result, logvars >>

InitFetch ==
    /\ match_data = MatchDetails
    /\ total_rounds = 1
    /\ Idle

NextFetch == FetchMatches \/ FetchMatchDetails

SpecFetch == InitFetch /\ [][NextFetch]_vars

\* the kind of a response: success, not found, transient failure, malformed
\* or empty response; "other" for the remaining status codes
KindOf(response) ==
    CASE response.error # "none"                              -> "transient"
      [] response.status = 429                                -> "transient"
      [] response.status = 404                                -> "not_found"
      [] response.status = 200 /\ response.body = "data"      -> "success"
      [] response.status = 200                                -> "malformed"
      [] OTHER                                                -> "other"

\* C20: for each of the two fetch functions, a not-found response, a transient
\* failure, a malformed or empty response and a success produce return
\* values that differ from one another.
C20_FailuresDistinguishable ==
    \A i \in 1..Len(returned) : \A j \in 1..Len(returned) :
        ( /\ returned[i].fn \in { "fetch_valorant_matches", "fetch_match_details" }
          /\ returned[j].fn = returned[i].fn
          /\ KindOf(returned[i].response) # "other"
          /\ KindOf(returned[j].response) # "other"
          /\ KindOf(returned[i].response) # KindOf(returned[j].response) )
        => returned[i].value # returned[j].value

-----------------------------------------------------------------------------
(* Match records with optional fields absent.  The record is a two-round   *)
(* match with economy data, a traded death and an assist, from which up to *)
(* MaxMissing optional fields are absent: a field is named by the kind of  *)
(* dict that holds it and its key, and is absent from every dict of that   *)
(* kind.  Any of the analytics functions is called on the record.          *)

MaxMissing == 2

OptionalFields ==
    { << "match", "rounds" >>, << "match", "kills" >>,
      << "round", "round_num" >>, << "round", "winning_team" >>,
      << "round", "player_stats" >>,
      << "stat", "player_puuid" >>, << "stat", "team" >>, << "stat", "kills" >>,
      << "stat", "assists" >>, << "stat", "economy" >>,
      << "economy", "loadout_value" >>, << "economy", "weapon" >>,
      << "economy", "armor" >>, << "weapon", "name" >>, << "armor", "name" >>,
      << "kill", "round" >>, << "kill", "kill_time_in_round" >>,
      << "kill", "killer_puuid" >>, << "kill", "victim_puuid" >>,
      << "kill", "killer_team" >>, << "kill", "assistants" >>,
      << "assistant", "assistant_puuid" >> }

\* the dict without the absent fields of its kind
Keep(d, kind, missing) ==
    [ f \in { g \in DOMAIN d : << kind, g >> \notin missing } |-> d[f] ]

KeepEconomy(e, missing) ==
    Keep([ e EXCEPT !.weapon = Keep(@, "weapon", missing),
                    !.armor  = Keep(@, "armor", missing) ], "economy", missing)

KeepStat(s, missing) ==
    Keep([ s EXCEPT !.economy = KeepEconomy(@, missing) ], "stat", missing)

KeepRound(r, missing) ==
    Keep([ r EXCEPT !.player_stats = [ j \in 1..Len(@) |-> KeepStat(@[j], missing) ] ],
         "round", missing)

KeepKill(k, missing) ==
    Keep([ k EXCEPT !.assistants = [ j \in 1..Len(@) |-> Keep(@[j], "assistant", missing) ] ],
         "kill", missing)

KeepMatch(m, missing) ==
    Keep([ rounds |-> [ i \in 1..Len(m.rounds) |-> KeepRound(m.rounds[i], missing) ],
           kills  |-> [ i \in 1..Len(m.kills) |-> KeepKill(m.kills[i], missing) ] ],
         "match", missing)

\* rounds 3 and 4 of a match: the full buy with the traded death of p1, won by
\* Red, and the save round, won by Blue; p3 assists every kill
CompleteMatch ==
    LET m == AnalyticsMatch(<< "buy", "save" >>, << "Red", "Blue" >>, 3)
    IN  [ m EXCEPT !.kills = [ i \in 1..Len(@) |->
            [ f \in DOMAIN @[i] \cup { "assistants" } |->
                IF f = "assistants" THEN << [ assistant_puuid |-> "p3" ] >>
                ELSE @[i][f] ] ] ]

InitMissing ==
    /\ \E missing \in SUBSET OptionalFields :
          /\ Cardinality(missing) <= MaxMissing
          /\ match_data = KeepMatch(CompleteMatch, missing)
    /\ player_puuid \in { "p1", "p3" }
    /\ total_rounds = Len(CompleteMatch.rounds)
    /\ pc = "done"
    /\ kills_by_round = NoIndex
    /\ heap = NoLists
    /\ rounds_checked = 0
    /\ kast_rounds = 0
    /\ debug_info = << >>
    /\ result = 0
    /\ returned = << >>
    /\ log_store = NoLogs
    /\ today = FirstDay
    /\ requested = Request
    /\ user_links = NoLinks
    /\ pulling = NotPulling

SpecMissing == InitMissing /\ [][NextAnalytics]_vars

\* the round records of the match and the player stats of a round, as given
GivenRounds == IF "rounds" \in DOMAIN match_data THEN match_data.rounds ELSE << >>

GivenStats(round_info) ==
    IF "player_stats" \in DOMAIN round_info THEN round_info.player_stats ELSE << >>

\* the stats of the analysed player in the round records
OwnStats ==
    { s \in UNION { Range(GivenStats(GivenRounds[i])) : i \in 1..Len(GivenRounds) } :
        "player_puuid" \in DOMAIN s /\ s.player_puuid = player_puuid }

\* no economy dict holds the field
EconomyLacks(field) ==
    \A i \in 1..Len(GivenRounds) : \A s \in Range(GivenStats(GivenRounds[i])) :
        "economy" \in DOMAIN s => field \notin DOMAIN s.economy

ZeroMultikills == [ b \in { "2k", "3k", "4k", "5k" } |-> 0 ]

ZeroFirstBlood ==
    [ total_rounds |-> 0, first_blood_rounds |-> 0, first_blood_wins |-> 0,
      first_blood_losses |-> 0, win_rate |-> 0 ]

\* the value a function returned is of the function's result type, and is the
\* function's default when the data the function works on is missing
DefinedResult(r) ==
    CASE r.fn = "calculate_kast" ->
           /\ r.value \in 0..1000
           /\ (GivenRounds = << >> \/ OwnStats = { }) => r.value = 0
      [] r.fn = "count_multikills" ->
           /\ r.value \in [ { "2k", "3k", "4k", "5k" } -> Nat ]
           /\ (\A s \in OwnStats : "kills" \notin DOMAIN s) => r.value = ZeroMultikills
      [] r.fn = "analyze_first_blood_win_rate" ->
           /\ DOMAIN r.value = DOMAIN ZeroFirstBlood
           /\ \A f \in DOMAIN r.value : r.value[f] \in Nat
           /\ ( \/ GivenRounds = << >>
                \/ "kills" \notin DOMAIN match_data
                \/ \A i \in 1..Len(GivenRounds) : "winning_team" \notin DOMAIN GivenRounds[i] )
              => r.value = ZeroFirstBlood
      [] r.fn = "analyze_effective_loadouts" ->
           /\ \A i \in 1..Len(r.value) :
                 /\ r.value[i].total_rounds \in Nat /\ r.value[i].wins \in Nat
                 /\ r.value[i].win_rate \in 0..1000
                 /\ EconomyLacks("weapon") =>
                       r.value[i].primary_weapons = << "Unknown", "Unknown", "Unknown" >>
                 /\ EconomyLacks("armor") => r.value[i].armor_count = 0
                 /\ EconomyLacks("loadout_value") => r.value[i].total_value = 0
           /\ ( \/ GivenRounds = << >>
                \/ \A i \in 1..Len(GivenRounds) :
                      \/ "winning_team" \notin DOMAIN GivenRounds[i]
                      \/ \A s \in Range(GivenStats(GivenRounds[i])) : "team" \notin DOMAIN s )
              => r.value = << >>

\* C21: on a match record from which optional fields are absent (rounds,
\* kills, player stats, assistants, round numbers, economy data, ...), every
\* call of calculate_kast, count_multikills, analyze_first_blood_win_rate and
\* analyze_effective_loadouts returns a value of the function's result type,
\* which is the function's default (0.0, zero counts, the empty map) when the
\* data the function works on is missing, and is computed with the defaults
\* of the absent fields otherwise; no call fails.
C21_DefinedDefaults ==
    \A j \in 1..Len(returned) : DefinedResult(returned[j])

\* the round records lack their player stats: calculate_kast has returned 0.0
\* and analyze_effective_loadouts the empty map
C21_Witness ==
    /\ GivenRounds # << >>
    /\ \A i \in 1..Len(GivenRounds) : "player_stats" \notin DOMAIN GivenRounds[i]
    /\ \E j \in 1..Len(returned) :
          returned[j].fn = "calculate_kast" /\ returned[j].value = 0
    /\ \E j \in 1..Len(returned) :
          returned[j].fn = "analyze_effective_loadouts" /\ returned[j].value = << >>

-----------------------------------------------------------------------------
(* The server statistics of a guild: matches of Ann#0001 and Bob#0001 are  *)
(* logged, users link and unlink accounts, and /serverstats is run with    *)
(* server_only true in a guild.                                            *)

\* /serverstats with server_only true (the default), in a guild
ServerStatsMembers ==
    /\ pc = "done"
    /\ Len(returned) < MaxCommands
    /\ \E guild \in Guilds, days \in CommandDays :
          returned' = Append(returned,
             [ fn    |-> "slash_server_stats", server_only |-> TRUE, guild |-> guild,
               days  |-> days,
               value |-> slash_server_stats(log_store, user_links, today, days,
                                            TRUE, guild) ])
    /\ UNCHANGED << match_data, player_puuid, total_rounds, pc, kills_by_round, heap,
                    rounds_checked, kast_rounds, debug_info, result, logvars >>

\* three matches of one round each, with different scores
ServerMatches ==
    << Match("m1", 1, << Player("Ann", "p1", "Red", 1, 0, 0, 200),
                         Player("Bob", "p2", "Blue", 0, 1, 0, 100) >>, << >>, << >>),
       Match("m3", 1, << Player("Ann", "p1", "Red", 0, 1, 1, 100),
                         Player("Bob", "p2", "Blue", 1, 0, 0, 300) >>, << >>, << >>),
       Match("m4", 1, << Player("Bob", "p2", "Red", 2, 1, 0, 250),
                         Player("Ann", "p1", "Blue", 1, 2, 0, 400) >>, << >>, << >>) >>

\* the log store after log_match_data on the first n of the matches
RECURSIVE LoggedStore(_)
LoggedStore(n) ==
    IF n = 0 THEN NoLogs
    ELSE StoreAfterLog(LoggedStore(n - 1), ServerMatches[n], Request, FirstDay)

InitServer ==
    /\ match_data = ServerMatches[1]
    /\ total_rounds = 1
    /\ player_puuid = "p1"
    /\ pc = "done"
    /\ kills_by_round = NoIndex
    /\ heap = NoLists
    /\ rounds_checked = 0
    /\ kast_rounds = 0
    /\ debug_info = << >>
    /\ result = 0
    /\ returned = << >>
    /\ \E n \in 0..Len(ServerMatches) : log_store = LoggedStore(n)
    /\ today = FirstDay
    /\ requested = Request
    /\ user_links = NoLinks
    /\ pulling = NotPulling

NextServer == LinkAccount \/ UnlinkAccount \/ ServerStatsMembers

SpecServer == InitServer /\ [][NextServer]_vars

\* the players named in a list of the report (the first component of an item)
Named(list) == { list[i][1] : i \in 1..Len(list) }

\* the players that appear in the leaderboards and best-of lists of a report
PlayersShown(report) ==
    Named(report.top_acs_players) \cup Named(report.top_kd_players)
    \cup Named(report.top_kast_players) \cup Named(report.top_damage_players)
    \cup Named(report.top_agent_players) \cup Named(report.top_games)

\* the logged players linked by a user of the guild, and what they add up to
MemberPlayers(guild, days) ==
    SelectSeq(MatchPlayers(CollectLogs(log_store, today, DaysAnalysed(days)), 1),
              LAMBDA p : \E u \in DOMAIN user_links :
                            /\ user_links[u].guild_id = guild
                            /\ user_links[u].valorant_username = p.name
                            /\ user_links[u].valorant_tag = p.tag)

\* C22: with server_only true, every player that contributes to or appears in
\* the /serverstats output is linked by a member of the invoking guild: the
\* totals are those of the members' games, and every player of a leaderboard,
\* of the best agents and of the best games is a member's account.
C22_OnlyLinkedMembers ==
    Len(returned) > 0 =>
       LET r == returned[Len(returned)]
       IN  (r.fn = "slash_server_stats" /\ r.server_only /\ r.value # << >>) =>
              /\ r.value[1].overview.total_kills = SumOfStat(MemberPlayers(r.guild, r.days), "kills", 1)
              /\ r.value[1].overview.unique_players
                    = Cardinality({ << MemberPlayers(r.guild, r.days)[i].name, MemberPlayers(r.guild, r.days)[i].tag >> :
                                      i \in 1..Len(MemberPlayers(r.guild, r.days)) })
              /\ \A p \in PlayersShown(r.value[1]) :
                    \E u \in DOMAIN user_links :
                       /\ user_links[u].guild_id = r.guild
                       /\ user_links[u].valorant_full = p

-----------------------------------------------------------------------------
(* The round economy classifier, as the specification of the system        *)
(* describes it (section 4.4; the source file holds no classifier): a pass *)
(* over the rounds in order that carries the team's win/loss history and   *)
(* labels each round by the first rule that applies.                       *)

PistolRoundNumbers == { 1, 13 }

AntiEcoRoundNumbers == { 2, 14 }

ForceBuyRoundNumbers == { 2, 3, 14, 15 }

EcoBelow == 1000

ForceBuyBelow == 2500

\* the non-zero loadout values of the players of a round
LoadoutValues(round_info) ==
    LET stats  == Get(round_info, "player_stats", << >>)
        values == [ i \in 1..Len(stats) |->
                      Get(Get(stats[i], "economy", EmptyDict), "loadout_value", 0) ]
    IN  SelectSeq(values, LAMBDA v : v # 0)

RECURSIVE SumSeq(_, _)
SumSeq(s, i) == IF i > Len(s) THEN 0 ELSE s[i] + SumSeq(s, i + 1)

\* rule 3: the label of the mean loadout value
LabelOfLoadout(values) ==
    IF SumSeq(values, 1) < EcoBelow * Len(values) THEN "eco"
    ELSE IF SumSeq(values, 1) < ForceBuyBelow * Len(values) THEN "force-buy"
    ELSE "full-buy"

\* rule 4: the label inferred from the history (won, a list of booleans, one
\* per earlier round) and the round number
LabelOfHistory(round_number, won) ==
    IF Len(won) >= 2 /\ ~ won[Len(won)] /\ ~ won[Len(won) - 1] THEN "eco"
    ELSE IF round_number \in ForceBuyRoundNumbers THEN "force-buy"
    ELSE "full-buy"

\* the rules with the loadout value tested first
ClassifyRoundByLoadoutFirst(round_info, round_number, won) ==
    IF LoadoutValues(round_info) # << >> THEN LabelOfLoadout(LoadoutValues(round_info))
    ELSE IF round_number \in PistolRoundNumbers THEN "pistol"
    ELSE IF round_number \in AntiEcoRoundNumbers /\ Len(won) >= 1 /\ won[Len(won)] THEN "anti-eco"
    ELSE LabelOfHistory(round_number, won)

\* the rules in their priority order
ClassifyRound(round_info, round_number, won) ==
    IF round_number \in PistolRoundNumbers THEN "pistol"
    ELSE IF round_number \in AntiEcoRoundNumbers /\ Len(won) >= 1 /\ won[Len(won)] THEN "anti-eco"
    ELSE IF LoadoutValues(round_info) # << >> THEN LabelOfLoadout(LoadoutValues(round_info))
    ELSE LabelOfHistory(round_number, won)

\* the observations (round, type, won) of the rounds from the i-th on
RECURSIVE ClassifyRounds(_, _, _, _)
ClassifyRounds(match_rounds, team, won, i) ==
    IF i > Len(match_rounds) THEN << >>
    ELSE LET round_info   == match_rounds[i]
             round_number == KastRoundNum(round_info, i)
             round_won    == Lower(Get(round_info, "winning_team", "")) = team
         IN  << [ round |-> round_number,
                  type  |-> ClassifyRound(round_info, round_number, won),
                  won   |-> round_won ] >>
             \o ClassifyRounds(match_rounds, team, Append(won, round_won), i + 1)

EconomyTypes == { "pistol", "anti-eco", "eco", "force-buy", "full-buy" }

\* the per-type table {attempts, wins} and the observations it is made of
classify_economy(match, team) ==
    LET observations == ClassifyRounds(Get(match, "rounds", << >>), team, << >>, 1)
    IN  [ rounds |-> observations,
          table  |-> [ t \in EconomyTypes |->
                        [ attempts |-> Cardinality({ i \in 1..Len(observations) :
                                                       observations[i].type = t }),
                          wins     |-> Cardinality({ i \in 1..Len(observations) :
                                                       observations[i].type = t
                                                       /\ observations[i].won }) ] ] ]

\* the rounds of the analysed player's team (Red) are classified
EconomyCall ==
    /\ pc = "done"
    /\ Len(returned) < MaxCalls
    /\ returned' = Append(returned, [ fn    |-> "classify_economy",
                                      value |-> classify_economy(match_data, "red") ])
    /\ UNCHANGED << match_data, player_puuid, total_rounds, pc, kills_by_round, heap,
                    rounds_checked, kast_rounds, debug_info, result, logvars >>

MaxEconomyRounds == 2

\* the average loadout values of a round: no economy data, pistols, and one
\* value in each band of rule 3
EconomyValues == { 0, 800, 2000, 4500 }

EconomyRound(n, value, winner) ==
    [ round_num |-> n, winning_team |-> winner,
      player_stats |-> IF value = 0 THEN << [ player_puuid |-> "p1", team |-> "Red" ] >>
                       ELSE << [ player_puuid |-> "p1", team |-> "Red",
                                 economy |-> [ loadout_value |-> value ] ],
                               [ player_puuid |-> "p2", team |-> "Red",
                                 economy |-> [ loadout_value |-> 0 ] ] >> ]

InitEconomy ==
    /\ \E n \in 1..MaxEconomyRounds, first \in { 1, 3, 12, 13 } :
       \E values \in [ 1..n -> EconomyValues ], winners \in [ 1..n -> { "Red", "Blue" } ] :
          match_data = [ rounds |-> [ i \in 1..n |->
                                        EconomyRound(first + i - 1, values[i], winners[i]) ],
                         kills  |-> << >> ]
    /\ total_rounds = MaxEconomyRounds
    /\ Idle

SpecEconomy == InitEconomy /\ [][EconomyCall]_vars

\* C23: a round numbered 1 or 13 is labelled pistol whatever the loadout
\* values of the round are: the loadout-value rule never relabels it.
C23_PistolByNumber ==
    \A j \in 1..Len(returned) :
       returned[j].fn = "classify_economy" =>
          \A i \in 1..Len(returned[j].value.rounds) :
             match_data.rounds[i].round_num \in PistolRoundNumbers
                => returned[j].value.rounds[i].type = "pistol"

\* round 1 was bought with an average loadout of 4500 and is labelled pistol
C23_Witness ==
    /\ Len(returned) > 0
    /\ returned[1].fn = "classify_economy"
    /\ match_data.rounds[1].round_num = 1
    /\ LoadoutValues(match_data.rounds[1]) = << 4500 >>
    /\ returned[1].value.rounds[1].type = "pistol"

-----------------------------------------------------------------------------
(* The clutch detector, as the specification of the system describes it    *)
(* (section 4.5; the source file holds no clutch detection): per round, the *)
(* kill events of the round are read from the index with the fallback of   *)
(* the KAST lookup, and the player's own kills and death are compared.     *)

\* the kills that make a clutch attempt, and the largest clutch type
ClutchKills == 2

MaxClutchType == 5

\* the events of a list with the player as killer, and as victim
KillsBy(round_kills, puuid) ==
    SelectSeq(round_kills, LAMBDA e : Get(e, "killer_puuid", None) = puuid)

DeathsOf(round_kills, puuid) ==
    SelectSeq(round_kills, LAMBDA e : Get(e, "victim_puuid", None) = puuid)

\* a single kill counted as an attempt
IsClutchAttemptSingleKill(own_kills) == Len(own_kills) >= 1

\* two kills or more of the player in the round
IsClutchAttempt(own_kills) == Len(own_kills) >= ClutchKills

\* 1v2 .. 1v5, as the number of opponents
ClutchType(own_kills) ==
    IF Len(own_kills) >= MaxClutchType THEN MaxClutchType ELSE Len(own_kills)

\* the player never died in the round, or died after every one of their kills
ClutchWon(own_kills, deaths) ==
    \/ deaths = << >>
    \/ \A i \in 1..Len(own_kills) : KillTime(deaths[1]) > KillTime(own_kills[i])

\* the attempts (round, type, won) of the rounds from the i-th on
RECURSIVE ClutchRounds(_, _, _, _)
ClutchRounds(match_rounds, index, puuid, i) ==
    IF i > Len(match_rounds) THEN << >>
    ELSE LET round_number == KastRoundNum(match_rounds[i], i)
             round_kills  == SortByTime(RoundKillsList(index, round_number))
             own_kills    == KillsBy(round_kills, puuid)
         IN  (IF IsClutchAttempt(own_kills)
              THEN << [ round |-> round_number,
                        type  |-> ClutchType(own_kills),
                        won   |-> ClutchWon(own_kills, DeathsOf(round_kills, puuid)) ] >>
              ELSE << >>)
             \o ClutchRounds(match_rounds, index, puuid, i + 1)

\* the attempts and the per-type table {attempts, wins}
detect_clutches(match, puuid) ==
    LET found == ClutchRounds(Get(match, "rounds", << >>),
                              GroupKillsByRound(Get(match, "kills", << >>)), puuid, 1)
    IN  [ attempts |-> found,
          table    |-> [ t \in 1..MaxClutchType |->
                          [ attempts |-> Cardinality({ i \in 1..Len(found) : found[i].type = t }),
                            wins     |-> Cardinality({ i \in 1..Len(found) :
                                                         found[i].type = t /\ found[i].won }) ] ] ]

\* the clutches of the analysed player are detected
ClutchCall ==
    /\ pc = "done"
    /\ Len(returned) < MaxCalls
    /\ returned' = Append(returned, [ fn    |-> "detect_clutches",
                                      value |-> detect_clutches(match_data, player_puuid) ])
    /\ UNCHANGED << match_data, player_puuid, total_rounds, pc, kills_by_round, heap,
                    rounds_checked, kast_rounds, debug_info, result, logvars >>

MaxClutchKills == 3

ClutchTimes == { 1000, 2000, 3000 }

\* p1 kills an opponent, an opponent kills p1, or two others fight
ClutchEvents ==
    { Kill(e[1], e[2], t) : e \in { << "p1", "p6" >>, << "p6", "p1" >>, << "p2", "p6" >> },
                            t \in ClutchTimes }

\* the kill events of a round, in which a player dies at most once
ClutchRoundKills ==
    { s \in UNION { [ 1..n -> ClutchEvents ] : n \in 0..MaxClutchKills } :
        Len(DeathsOf(s, "p1")) <= 1 }

\* a first round with any kill events, tagged 1, and possibly a second round
\* in which p1 kills two opponents and survives
InitClutch ==
    /\ \E kills \in ClutchRoundKills, second \in BOOLEAN :
          match_data =
             [ rounds |-> [ i \in 1..(IF second THEN 2 ELSE 1) |->
                              [ round_num |-> i, player_stats |-> << Stat(0, 0) >> ] ],
               kills  |-> Tagged(kills, 1)
                          \o (IF second
                              THEN Tagged(<< Kill("p1", "p6", 2000), Kill("p1", "p7", 1000) >>, 2)
                              ELSE << >>) ]
    /\ total_rounds = 2
    /\ Idle

SpecClutch == InitClutch /\ [][ClutchCall]_vars

\* the kill events of a round: those tagged with its number or, when there
\* are none, those the lookup's fallback serves (section 4.1)
EventsTagged(n) ==
    IF SelectSeq(match_data.kills, LAMBDA e : e.round = n) # << >>
    THEN SelectSeq(match_data.kills, LAMBDA e : e.round = n)
    ELSE RoundKillsList(GroupKillsByRound(match_data.kills), n)

\* the attempts a call recorded for the round

AttemptsOf(value, n) == { i \in 1..Len(value.attempts) : value.attempts[i].round = n }

\* C24: a clutch attempt is recorded for the player in a round iff the player
\* is the killer of at least 2 kill events of the round (a single kill is
\* never a clutch), and the attempt counts as won iff the player has no death
\* in the round or the death time is later than every one of the player's
\* kill times in the round.
C24_ClutchAttempts ==
    \A j \in 1..Len(returned) :
       returned[j].fn = "detect_clutches" =>
          \A n \in 1..Len(match_data.rounds) :
             LET value  == returned[j].value
                 kills  == { i \in 1..Len(EventsTagged(n)) :
                               EventsTagged(n)[i].killer_puuid = player_puuid }
                 deaths == { i \in 1..Len(EventsTagged(n)) :
                               EventsTagged(n)[i].victim_puuid = player_puuid }
             IN  /\ Cardinality(AttemptsOf(value, n)) = (IF Cardinality(kills) >= 2 THEN 1 ELSE 0)
                 /\ \A a \in AttemptsOf(value, n) :
                       value.attempts[a].won
                          <=> \A d \in deaths : \A k \in kills :
                                 EventsTagged(n)[d].kill_time_in_round
                                    > EventsTagged(n)[k].kill_time_in_round

\* p1 killed twice in round 1 and died between the two kills: an attempt was
\* recorded and counts as lost
C24_Witness ==
    /\ Len(returned) > 0
    /\ returned[1].fn = "detect_clutches"
    /\ \E a \in AttemptsOf(returned[1].value, 1) :
          /\ ~ returned[1].value.attempts[a].won
          /\ returned[1].value.attempts[a].type = 2
    /\ \E i \in 1..Len(EventsTagged(1)) :
          /\ EventsTagged(1)[i].victim_puuid = "p1"
          /\ EventsTagged(1)[i].kill_time_in_round = 2000

-----------------------------------------------------------------------------
(* calculate_kast on kill events that carry the teams of killer and victim: *)
(* p1 and p3 play on Red, p2 and p4 on Blue.                                *)

MaxTeamKills == 2

TeamOf(p) == IF p \in { "p1", "p3" } THEN "Red" ELSE "Blue"

TeamTimes == { 0, 1000 }

TeamPlayers == { "p1", "p2", "p3", "p4" }

TeamEvents ==
    { [ round |-> 1, killer_puuid |-> k, victim_puuid |-> v, kill_time_in_round |-> t,
        killer_team |-> TeamOf(k), victim_team |-> TeamOf(v) ] :
        k \in TeamPlayers, v \in TeamPlayers, t \in TeamTimes } \
    { e \in [ round : { 1 }, killer_puuid : TeamPlayers, victim_puuid : TeamPlayers,
              kill_time_in_round : TeamTimes, killer_team : { "Red", "Blue" },
              victim_team : { "Red", "Blue" } ] : e.killer_puuid = e.victim_puuid }

InitTeamTrade ==
    /\ \E k \in 0..MaxTeamKills : \E ks \in [ 1..k -> TeamEvents ] :
          match_data = [ rounds |-> << [ round_num |-> 1, player_stats |-> << Stat(0, 0) >> ] >>,
                         kills  |-> ks ]
    /\ player_puuid = "p1"
    /\ total_rounds = 1
    /\ Fresh

SpecTeamTrade == InitTeamTrade /\ [][NextKastOnce]_vars

\* C25: the player is marked as traded only when the kill of the player's
\* killer was made by a teammate of the player; a kill of the killer by
\* someone who is not on the victim's team never counts as a trade.
C25_TradeByTeammate ==
    \A n \in 1..Len(debug_info) :
        debug_info[n].trade =>
            \E i \in Deaths : \E j \in 1..Len(RoundEvents) :
                /\ j # i
                /\ RoundEvents[j].victim_puuid = RoundEvents[i].killer_puuid
                /\ RoundEvents[j].killer_puuid # player_puuid
                /\ RoundEvents[j].killer_team = RoundEvents[i].victim_team

-----------------------------------------------------------------------------
(* log_match_data and the embed on records the API can deliver, one of     *)
(* them with a player whose stats are null.                                 *)

\* a match whose second player carries "stats": null
BrokenMatch ==
    [ metadata |-> [ matchid |-> "m5", map |-> "Ascent", mode |-> "Competitive",
                     rounds_played |-> 1 ],
      teams    |-> [ red |-> [ rounds_won |-> 1 ], blue |-> [ rounds_won |-> 0 ] ],
      players  |-> [ all_players |->
                       << Player("Ann", "p1", "Red", 1, 0, 0, 200),
                          [ name |-> "Bob", tag |-> "0001", puuid |-> "p2", team |-> "Blue",
                            stats |-> Null ] >> ],
      rounds   |-> << >>,
      kills    |-> << >> ]

LogMatches == StoreMatches \cup { BrokenMatch }

\* the details of another match were fetched
NextLogMatch ==
    /\ pc = "done"
    /\ match_data' \in LogMatches \ { match_data }
    /\ UNCHANGED << player_puuid, total_rounds, pc, kills_by_round, heap, rounds_checked,
                    kast_rounds, debug_info, result, returned, logvars >>

InitLogging ==
    /\ match_data \in LogMatches
    /\ total_rounds = 1
    /\ Idle

NextLogging == LogMatchData \/ CreateEmbed \/ NextDay \/ NextLogMatch

SpecLogging == InitLogging /\ [][NextLogging]_vars

\* a step that is a call of log_match_data, and the value the call returned
IsLogCall ==
    /\ Len(returned') = Len(returned) + 1
    /\ returned'[Len(returned')].fn = "log_match_data"

\* C26: log_match_data returns True exactly when it appended a new entry to
\* the day's log file, and returns False only when an entry with the same
\* match_id was already in that file, in which case the file is unchanged.
C26_FalseOnlyWhenLogged ==
    [][ IsLogCall =>
          /\ returned'[Len(returned')].value
                <=> /\ DayFile(log_store', today) # DayFile(log_store, today)
                    /\ Len(DayFile(log_store', today)) = Len(DayFile(log_store, today)) + 1
          /\ ~ returned'[Len(returned')].value
                => /\ MatchExists(DayFile(log_store, today), MatchId(match_data))
                   /\ log_store' = log_store ]_vars

-----------------------------------------------------------------------------
(* slash_kast_debug: the command recomputes KAST round by round for the     *)
(* player named in the command and reports rounds analysed, KAST rounds and *)
(* the percentage.                                                          *)

\* the first player of the match with the name (compared in lower case) and tag
TargetPlayer(all_players, username, tag) ==
    SelectSeq(all_players, LAMBDA p : /\ Lower(Get(p, "name", "")) = Lower(username)
                                      /\ Get(p, "tag", "") = tag)

\* round((kast_rounds / rounds_checked) * 100, 1)
KastDebugPercentage(kast, checked) == RoundPct(kast, checked)

\* what the command shows for the fetched match: a message, or the report
slash_kast_debug(match, username, tag) ==
    LET all_players == Get(Get(match, "players", EmptyDict), "all_players", << >>)
        target      == TargetPlayer(all_players, username, tag)
        round_data  == Get(match, "rounds", << >>)
    IN  IF DOMAIN match = { } THEN [ content |-> "Could not fetch match data" ]
        ELSE IF target = << >> THEN [ content |-> "Player not found in this match" ]
        ELSE IF Len(round_data) = 0
             \* the division by rounds_checked = 0 raises; the handler answers
             THEN [ content |-> "Error analyzing KAST calculation." ]
        ELSE LET puuid == Get(target[1], "puuid", "")
                 kast  == KastCount([ rounds |-> round_data ], puuid,
                                    GroupKillsByRound(Get(match, "kills", << >>)), 1)
             IN  [ content         |-> "KAST Debug",
                   total_rounds    |-> Get(Get(match, "metadata", EmptyDict), "rounds_played", 0),
                   rounds_analyzed |-> Len(round_data),
                   kast_rounds     |-> kast,
                   kast_percentage |-> KastDebugPercentage(kast, Len(round_data)) ]

\* /kastdebug for the requested player on the match
KastDebug ==
    /\ pc = "done"
    /\ Len(returned) < MaxCalls
    /\ returned' = Append(returned,
                          [ fn    |-> "slash_kast_debug",
                            value |-> slash_kast_debug(match_data, requested.username,
                                                       requested.tag) ])
    /\ UNCHANGED << match_data, player_puuid, total_rounds, pc, kills_by_round, heap,
                    rounds_checked, kast_rounds, debug_info, result, logvars >>

MaxDebugRounds == 2

MaxDebugPlayed == 3

\* a match of Ann (p1) with up to MaxDebugRounds round records and a
\* rounds_played that may differ from their number
InitKastDebug ==
    /\ \E n \in 0..MaxDebugRounds, played \in 0..MaxDebugPlayed :
       \E cases \in [ 1..n -> RoundCases ] :
          match_data = Match("m1", played, << Player("Ann", "p1", "Red", 0, 0, 0, 0) >>,
                             MatchOfCases(cases).rounds, MatchOfCases(cases).kills)
    /\ total_rounds = 1
    /\ Idle

SpecKastDebug == InitKastDebug /\ [][KastDebug]_vars

\* C27: the KAST percentage /kastdebug reports equals the value calculate_kast
\* returns for the same match, player and rounds_played, including when
\* rounds_played exceeds the number of round records and when the rounds list
\* is empty.
C27_DebugEqualsKast ==
    \A n \in 1..Len(returned) :
        returned[n].fn = "slash_kast_debug" =>
            /\ returned[n].value.content = "KAST Debug"
            /\ returned[n].value.kast_percentage
                  = calculate_kast(match_data, "p1", match_data.metadata.rounds_played)

-----------------------------------------------------------------------------
(* analyze_first_blood_win_rate on lists of matches whose round records may *)
(* repeat a round number or lack a winner, and whose kill events may lack   *)
(* the killer's team.                                                       *)

MaxFbListRounds == 2

MaxFbListKills == 2

FbListRounds ==
    { [ round_num |-> n, winning_team |-> w ] : n \in { 1, 2 }, w \in { "Red", "Blue" } }
    \cup { [ round_num |-> n ] : n \in { 1, 2 } }

FbListKills ==
    { [ round |-> n, killer_puuid |-> "p1", victim_puuid |-> "p6", killer_team |-> "Red",
        kill_time_in_round |-> t ] : n \in { 1, 2 }, t \in { 0, 1000 } }
    \cup { [ round |-> n, killer_puuid |-> "p6", victim_puuid |-> "p1",
             kill_time_in_round |-> t ] : n \in { 1, 2 }, t \in { 0, 1000 } }

InitFbList ==
    /\ \E n \in 0..MaxFbListRounds, k \in 0..MaxFbListKills :
       \E rs \in [ 1..n -> FbListRounds ], ks \in [ 1..k -> FbListKills ] :
          match_data = [ rounds |-> rs, kills |-> ks ]
    /\ total_rounds = 2
    /\ Idle

\* the caller calls analyze_first_blood_win_rate on a list that holds the
\* record once or twice
FirstBloodListCall ==
    /\ pc = "done"
    /\ returned = << >>
    /\ \E all_matches \in { << match_data >>, << match_data, match_data >> } :
          returned' = << [ fn          |-> "analyze_first_blood_win_rate",
                           all_matches |-> all_matches,
                           value       |-> analyze_first_blood_win_rate(all_matches) ] >>
    /\ match_data' = MatchAfterFirstBlood(match_data)
    /\ UNCHANGED << player_puuid, total_rounds, pc, kills_by_round, heap, rounds_checked,
                    kast_rounds, debug_info, result, logvars >>

SpecFbList == InitFbList /\ [][FirstBloodListCall]_vars

\* the round records of a list of matches
RECURSIVE RoundRecords(_, _)
RoundRecords(all_matches, i) ==
    IF i > Len(all_matches) THEN 0
    ELSE Len(Get(all_matches[i], "rounds", << >>)) + RoundRecords(all_matches, i + 1)

\* C28: for every list of matches, the result of analyze_first_blood_win_rate
\* satisfies first_blood_wins + first_blood_losses = first_blood_rounds <=
\* total_rounds, and each round of a match is counted at most once in
\* total_rounds.
C28_FirstBloodCounters ==
    \A n \in 1..Len(returned) :
        (returned[n].fn = "analyze_first_blood_win_rate" /\ "all_matches" \in DOMAIN returned[n]) =>
            LET v == returned[n].value
            IN  /\ v.first_blood_wins + v.first_blood_losses = v.first_blood_rounds
                /\ v.first_blood_rounds <= v.total_rounds
                /\ v.total_rounds <= RoundRecords(returned[n].all_matches, 1)

\* two rounds were counted; the first kill of one has a killer team, which
\* lost the round, and the first kill of the other has none
C28_Witness ==
    /\ Len(returned) = 1
    /\ returned[1].fn = "analyze_first_blood_win_rate"
    /\ Len(returned[1].all_matches) = 1
    /\ returned[1].value.total_rounds = 2
    /\ returned[1].value.first_blood_rounds = 1
    /\ returned[1].value.first_blood_losses = 1

-----------------------------------------------------------------------------
(* slash_pull_games: the matches listed for the player are cut to the       *)
(* requested count; each is fetched and logged, and counted as newly        *)
(* logged, already logged or as an error.                                   *)

\* what happens to a listed match: the listing entry has no match id (the
\* lookup raises), the fetch raises, the fetch returns nothing, or the fetch
\* returns the details of a match
FetchOutcomes ==
    { [ kind |-> k ] : k \in { "no id", "fetch raises", "empty" } }
    \cup { [ kind |-> "details", match |-> d ] : d \in LogMatches }

\* the loop body for the i-th match, were an empty response not reported
PullStepSilentEmpty(loop, outcome, i, req, now) ==
    CASE outcome.kind = "no id" ->
           [ loop EXCEPT !.errors = Append(@, << i, "General error" >>) ]
      [] outcome.kind = "fetch raises" ->
           [ loop EXCEPT !.errors = Append(@, << i, "Fetch error" >>) ]
      [] outcome.kind = "empty" -> loop
      [] OTHER ->
           IF LogReturn(loop.store, outcome.match, now)
           THEN [ loop EXCEPT !.store = StoreAfterLog(loop.store, outcome.match, req, now),
                              !.logged_count = @ + 1 ]
           ELSE [ loop EXCEPT !.skipped_count = @ + 1 ]

\* the loop body for the i-th match
PullStep(loop, outcome, i, req, now) ==
    CASE outcome.kind = "no id" ->
           [ loop EXCEPT !.errors = Append(@, << i, "General error" >>) ]
      [] outcome.kind = "fetch raises" ->
           [ loop EXCEPT !.errors = Append(@, << i, "Fetch error" >>) ]
      [] outcome.kind = "empty" ->
           [ loop EXCEPT !.errors = Append(@, << i, "Could not fetch detailed data" >>) ]
      [] OTHER ->
           IF LogReturn(loop.store, outcome.match, now)
           THEN [ loop EXCEPT !.store = StoreAfterLog(loop.store, outcome.match, req, now),
                              !.logged_count = @ + 1 ]
           ELSE [ loop EXCEPT !.skipped_count = @ + 1 ]

\* matches_data[:count]
FirstN(s, n) == SubSeq(s, 1, IF Len(s) < n THEN Len(s) ELSE n)

MaxListed == 3

MaxCount == 2

\* what fetch_valorant_matches hands to the command: an exception, None, or
\* the list of the matches, each with what is going to happen to it
PullListings ==
    { Raised, ReturnedNone }
    \cup { ReturnedList(l) : l \in UNION { [ 1..n -> FetchOutcomes ] : n \in 0..MaxListed } }

\* the local variables of the command when it enters its loop
PullLocals(matches_data, count) ==
    [ listed |-> matches_data, count |-> count, matches |-> FirstN(matches_data, count),
      i |-> 1, logged_count |-> 0, skipped_count |-> 0, errors |-> << >> ]

\* the answer of the command after its loop
PullComplete(locals) ==
    [ content       |-> "Match Data Pull Complete",
      requested     |-> locals.count,
      processed     |-> Len(locals.matches),
      logged_count  |-> locals.logged_count,
      skipped_count |-> locals.skipped_count,
      errors        |-> locals.errors ]

\* /pullgames for the requested player, up to its loop: the listing is
\* fetched; the command answers at once when the fetch raises or hands over
\* nothing, and is suspended before the first match otherwise
PullGames ==
    /\ pc = "done"
    /\ pulling = NotPulling
    /\ returned = << >>
    /\ \E fetched \in PullListings, count \in 1..MaxCount :
          IF fetched.raised
          THEN /\ returned' = << [ fn     |-> "slash_pull_games",
                                   listed |-> << >>,
                                   count  |-> count,
                                   value  |-> [ content |-> "Error fetching matches" ] ] >>
               /\ UNCHANGED pulling
          ELSE IF fetched.list = << >>
          THEN /\ returned' = << [ fn     |-> "slash_pull_games",
                                   listed |-> << >>,
                                   count  |-> count,
                                   value  |-> [ content |-> "No match data found for this player." ] ] >>
               /\ UNCHANGED pulling
          ELSE /\ pulling' = << PullLocals(fetched.list, count) >>
               /\ UNCHANGED returned
    /\ UNCHANGED << match_data, player_puuid, total_rounds, pc, kills_by_round, heap,
                    rounds_checked, kast_rounds, debug_info, result, log_store, today,
                    requested, user_links >>

\* one pass of 'for i, match in enumerate(matches, 1)': the command resumes,
\* fetches the details of the i-th match and logs them under the date the
\* clock shows now, and is suspended again
PullGamesMatch ==
    /\ pulling # NotPulling
    /\ pulling[1].i <= Len(pulling[1].matches)
    /\ LET locals == pulling[1]
           loop   == [ store |-> log_store, logged_count |-> locals.logged_count,
                       skipped_count |-> locals.skipped_count, errors |-> locals.errors ]
           after  == PullStep(loop, locals.matches[locals.i], locals.i, requested, today)
       IN  /\ log_store' = after.store
           /\ pulling' = << [ locals EXCEPT !.i = @ + 1,
                                            !.logged_count = after.logged_count,
                                            !.skipped_count = after.skipped_count,
                                            !.errors = after.errors ] >>
    /\ UNCHANGED << match_data, player_puuid, total_rounds, pc, kills_by_round, heap,
                    rounds_checked, kast_rounds, debug_info, result, returned, today,
                    requested, user_links >>

\* the loop is over: the command shows its counts and ends
PullGamesComplete ==
    /\ pulling # NotPulling
    /\ pulling[1].i > Len(pulling[1].matches)
    /\ returned' = << [ fn     |-> "slash_pull_games",
                        listed |-> pulling[1].listed,
                        count  |-> pulling[1].count,
                        value  |-> PullComplete(pulling[1]) ] >>
    /\ pulling' = NotPulling
    /\ UNCHANGED << match_data, player_puuid, total_rounds, pc, kills_by_round, heap,
                    rounds_checked, kast_rounds, debug_info, result, log_store, today,
                    requested, user_links >>

\* the store is empty or holds match m1, logged on the first day
InitPull ==
    /\ match_data = ServerMatches[1]
    /\ total_rounds = 1
    /\ player_puuid = "p1"
    /\ pc = "done"
    /\ kills_by_round = NoIndex
    /\ heap = NoLists
    /\ rounds_checked = 0
    /\ kast_rounds = 0
    /\ debug_info = << >>
    /\ result = 0
    /\ returned = << >>
    /\ log_store \in { NoLogs, LoggedStore(1) }
    /\ today = FirstDay
    /\ requested = Request
    /\ user_links = NoLinks
    /\ pulling = NotPulling

NextPull == PullGames \/ PullGamesMatch \/ PullGamesComplete \/ NextDay

SpecPull == InitPull /\ [][NextPull]_vars

\* the pulls that ran their loop
Pulls ==
    { n \in 1..Len(returned) : /\ returned[n].fn = "slash_pull_games"
                               /\ returned[n].value.content = "Match Data Pull Complete" }

\* C29: when /pullgames finishes its loop, every processed match is counted in
\* exactly one of newly logged, already logged or errors: logged_count +
\* skipped_count + len(errors) is the number of matches processed, which is at
\* most the requested count.
C29_EveryMatchCountedOnce ==
    \A n \in Pulls :
        LET v         == returned[n].value
            processed == IF Len(returned[n].listed) < returned[n].count
                         THEN Len(returned[n].listed) ELSE returned[n].count
        IN  /\ v.logged_count + v.skipped_count + Len(v.errors) = processed
            /\ v.processed = processed
            /\ processed <= returned[n].count

\* three matches were listed and two requested: the first was already logged
\* and the fetch of the second returned nothing
C29_Witness ==
    \E n \in Pulls :
        /\ Len(returned[n].listed) = 3
        /\ returned[n].count = 2
        /\ returned[n].value.skipped_count = 1
        /\ Len(returned[n].value.errors) = 1
        /\ returned[n].listed[1].kind = "details"
        /\ returned[n].listed[1].match.metadata.matchid = "m1"
        /\ returned[n].listed[2].kind = "empty"

-----------------------------------------------------------------------------
(* The link store under sequences of /link and /unlink commands of two      *)
(* users.                                                                   *)

NextLinks == LinkAccount \/ UnlinkAccount

SpecLinks == InitServer /\ [][NextLinks]_vars

\* a step that is a /link or an /unlink command, and the command's record
IsLinkCommand ==
    /\ Len(returned') = Len(returned) + 1
    /\ returned'[Len(returned')].fn \in { "slash_link_account", "slash_unlink_account" }

\* the entries of the users other than u are the same before and after
OthersUntouched(u) ==
    \A o \in Users \ { u } :
        /\ o \in DOMAIN user_links <=> o \in DOMAIN user_links'
        /\ o \in DOMAIN user_links => user_links'[o] = user_links[o]

\* C30: in any sequence of /link and /unlink commands the store holds at most
\* one link per Discord user; a /link by user u creates or replaces only u's
\* entry, a successful /unlink by u removes only u's entry, and a /link with
\* an invalid tag or an /unlink by a user without a link leaves the store
\* unchanged.
C30_LinkStoreFrame ==
    [][ IsLinkCommand =>
          LET command == returned'[Len(returned')]
              u       == command.user
          IN  /\ DOMAIN user_links' \subseteq Users
              /\ OthersUntouched(u)
              /\ (command.fn = "slash_link_account" /\ ValidTag(command.tag))
                    => /\ u \in DOMAIN user_links'
                       /\ user_links'[u].valorant_tag = command.tag
              /\ (command.fn = "slash_link_account" /\ ~ ValidTag(command.tag))
                    => user_links' = user_links
              /\ (command.fn = "slash_unlink_account" /\ u \in DOMAIN user_links)
                    => u \notin DOMAIN user_links'
              /\ (command.fn = "slash_unlink_account" /\ u \notin DOMAIN user_links)
                    => user_links' = user_links ]_vars

\* u1 and u2 linked their accounts and u1 unlinked: the link of u2 is the
\* only one left
C30_Witness ==
    /\ Len(returned) = 3
    /\ returned[1].fn = "slash_link_account" /\ returned[1].user = "u1"
    /\ returned[2].fn = "slash_link_account" /\ returned[2].user = "u2"
    /\ returned[3].fn = "slash_unlink_account" /\ returned[3].user = "u1"
    /\ returned[3].value = "Account Unlinked"
    /\ DOMAIN user_links = { "u2" }

====
